---- MODULE Spec2Model ----
(***************************************************************************)
(* Verification model of the prediction-market query system:              *)
(*   - the read/write replica guard (db_sync.py, db_sync_service.py):     *)
(*     ReadTracker, get_active_reads, sync_databases, run_sync_service,   *)
(*     together with the writer process (update_market_data.py);          *)
(*   - the batch semantic scorer (intelligent_gemini_bot.py):             *)
(*     batch_process_events and its helpers.                              *)
(* The two groups of variables are exercised by separate specifications.  *)
(***************************************************************************)
EXTENDS Integers, Sequences, FiniteSets, TLC

\* ------------------------------------------------------------------------
\* Bounds of the model
\* ------------------------------------------------------------------------
\* number of request threads that use ReadTracker
NumReaders == 2
\* largest number of rows of the events table in the write DB
MaxRecords == 1
\* number of 0.1 s sleeps that fit in the max_wait window (10 s / 0.1 s in
\* the source, scaled down)
MaxWaitTicks == 2
\* number of active events in the store the query runs against
NumEvents == 3
\* batch_size and max_batches of batch_process_events (200 and 10 in
\* intelligent_gemini_bot.py, scaled down)
BatchSize == 2
MaxBatches == 2
\* min_results handed to _prefilter_events_by_keywords (100, scaled down)
MinResults == 2
\* largest number of "|"-separated triples in one completion reply
MaxTriples == 2
\* rows of the events table in the larger of the two stores
NumRows == 22
\* largest number of accepted matches the fallback decision is taken for
MaxMatches == 21
\* number of /api/chat requests served at once by the one bot instance
NumRequests == 2
\* largest number of comma-separated fields of a REQUIRED_COLUMNS line
MaxColumns == 3
\* largest number of active events when the candidates are prepared
NumCandidates == 6
\* query terms (keywords and phrases) of a fallback search
MaxTerms == 6
\* "limit=600" of the SQL prefilter (scaled down as batch_size * max_batches
\* is: 600 of 2000)
SqlPrefilterLimit == 3

\* ------------------------------------------------------------------------
\* Replica guard: state
\* ------------------------------------------------------------------------
VARIABLES
    variant,        \* "root" = db_sync.py, "mcp" = db_sync_service.py
    read_lock,      \* holder of read_lock / _read_lock (NoHolder when free)
    active_reads,   \* the module-level counter
    rpc,            \* position of every reader thread
    rtmp,           \* value of active_reads loaded by a reader for += / -=
    rexc,           \* the body of the with-block raised
    spc,            \* position of the sync service
    wait_time,      \* wait_time / waited, in ticks of 0.1 s
    write_db,       \* file WRITE_DB
    read_db,        \* file READ_DB
    backup_db,      \* file READ_DB.backup
    sync_result,    \* what the last call of sync_databases did
    alive,          \* run_sync_service is still looping
    pre_read,       \* history: READ_DB when the pass began
    io_steps,       \* history: steps of the try block the pass executed
    failed_step,    \* history: the step of the pass that raised ("none")
    polls_nonzero,  \* history: every poll of the pass saw active_reads > 0
    copy_count      \* history: active rows of WRITE_DB when the copy began

guard_vars == <<variant, read_lock, active_reads, rpc, rtmp, rexc, spc,
                wait_time, write_db, read_db, backup_db, sync_result, alive,
                pre_read, io_steps, failed_step, polls_nonzero, copy_count>>

\* ------------------------------------------------------------------------
\* Batch semantic scorer: state of one call of batch_process_events
\* ------------------------------------------------------------------------
VARIABLES
    has_keywords,       \* _extract_query_keywords found keywords
    use_prefetch,       \* prefetched_events is not None
    user_limit,         \* user_limit (0 stands for None)
    null_volume,        \* events whose volume column is NULL
    bpc,                \* position of the calling thread
    all_events,         \* all_events
    events_for_batches, \* events_for_batches
    batches,            \* batches_to_process: the id lists, by batch_num
    bstate,             \* state of the future of every batch
    batch_matches,      \* batch_matches of every batch (event ids)
    batch_error,        \* batch_error of every batch
    calls,              \* completion calls issued for every batch
    completed,          \* futures as_completed has still to yield
    attr,               \* relevance_score / relevance_reasoning attributes
    all_matches,        \* all_matches (event ids)
    seen_event_ids,     \* seen_event_ids
    batch_errors,       \* batch_errors
    fallback_ran,       \* _keyword_sql_fallback was called
    fallback_added,     \* history: ids appended from the fallback
    display_events,     \* _format_final_answer: display_events (event ids)
    total_count,        \* _format_final_answer: total_count
    result              \* outcome returned by batch_process_events

batch_vars == <<has_keywords, use_prefetch, user_limit, null_volume, bpc,
                all_events,
                events_for_batches, batches, bstate, batch_matches,
                batch_error, calls, completed, attr, all_matches,
                seen_event_ids, batch_errors, fallback_ran, fallback_added,
                display_events, total_count, result>>

\* ------------------------------------------------------------------------
\* process_query: state of one request
\* ------------------------------------------------------------------------
VARIABLES
    user_query,         \* the raw query, as its sequence of words
    qpc,                \* position of process_query
    store,              \* ids of the rows of the events table
    pre_store,          \* history: the table when the request began
    proposed_sql,       \* history: analysis['sql_query'] as analysed
    call_failed,        \* history: the analysis completion call raised
    strategy_parsed,    \* history: the reply had a parsable STRATEGY line
    strategy,           \* analysis['strategy'], then the strategy executed
    completion_strategy,\* history: analysis['strategy'] as analysed
    sql_query,          \* analysis['sql_query'], then the rewritten text
    comparison_queries, \* analysis['comparison_queries']
    domain_filter,      \* analysis['domain_filter']
    q_user_limit,       \* analysis['user_limit'] (NoLimit stands for None)
    executed,           \* history: statements handed to cursor.execute
    read_sections,      \* history: ReadTracker sections entered
    results,            \* rows fetched by execute_sql_query (ids)
    display_results,    \* rows shown
    total_results,      \* total reported
    category_queries,   \* pairs execute_comparison_queries has still to run
    parsed_pairs,       \* history: the pairs it parsed
    results_by_category,\* rows fetched, by label
    comparison_data,    \* rows handed to the formatting call, by label
    outcome             \* what process_query returned

query_vars == <<user_query, qpc, store, pre_store, proposed_sql,
                call_failed, strategy_parsed,
                strategy, completion_strategy, sql_query,
                comparison_queries, domain_filter, q_user_limit, executed,
                read_sections, results, display_results, total_results,
                category_queries, parsed_pairs, results_by_category,
                comparison_data, outcome>>

\* ------------------------------------------------------------------------
\* batch_process_events: the decisions taken on the sizes of its lists
\* ------------------------------------------------------------------------
VARIABLES
    fb_pc,              \* position: before or after the fallback block
    fb_matches,         \* len(all_matches) when the executor has finished
    fb_limit,           \* user_limit (0 stands for None)
    fb_ran,             \* _keyword_sql_fallback was called
    col_pc,             \* position: before or after the analysis
    col_failed,         \* the analysis completion call raised
    col_line,           \* the REQUIRED_COLUMNS line of the reply, if any
    required_columns,   \* analysis['required_columns']
    cand_pc,            \* position in the preparation of the candidates
    caller,             \* who calls batch_process_events
    kw_given,           \* _extract_query_keywords found keywords
    num_active,         \* number of active events of the store
    scoring,            \* the events a keyword of the query occurs in
    sql_prefilter,      \* sql_prefilter of process_query (given: not None)
    cand_all_events,    \* all_events
    cand_for_batches,   \* events_for_batches
    batches_to_process, \* batches_to_process (the id lists)
    cand_result,        \* how the preparation ended
    reply_pc,           \* position: call issued, reply parsed, batch merged
    reply_batch,        \* batch: the ids of the events of the batch
    reply_text,         \* result of _call_gemini: NONE, or its triples
    reply_attr,         \* relevance_score / relevance_reasoning per event
    reply_matches,      \* batch_matches of process_single_batch (the ids)
    prior_matches,      \* all_matches before the batch is merged
    merged_matches,     \* all_matches after the batch is merged
    kf_pc,              \* position: before or after _keyword_sql_fallback
    like_terms,         \* like_terms (each term is named by a number)
    haystack,           \* per row, the terms its title + description hold
    kf_results,         \* results: the rows the LIKE query returned
    kf_relevance,       \* relevance_score set on each row (0: not set)
    rq,                 \* the request: its position (pc, and sec inside a
                        \* "with ReadTracker()" block) and the locals of
                        \* process_query and batch_process_events
    rq_in,              \* what the analysis and the query text decide
    in_read,            \* ReadTracker sections the request is inside
    scanning,           \* the request is blocked in a scan of READ_DB
    open_calls,         \* completion calls of the request in flight
    rq_structured,      \* self.last_structured_results (record ids)
    rq_text             \* the text process_query returns

fb_vars == <<fb_pc, fb_matches, fb_limit, fb_ran>>
col_vars == <<col_pc, col_failed, col_line, required_columns>>
cand_vars == <<cand_pc, caller, kw_given, num_active, scoring,
               sql_prefilter, cand_all_events, cand_for_batches,
               batches_to_process, cand_result>>
reply_vars == <<reply_pc, reply_batch, reply_text, reply_attr,
                reply_matches, prior_matches, merged_matches>>
kf_vars == <<kf_pc, like_terms, haystack, kf_results, kf_relevance>>
rq_vars == <<rq, rq_in, in_read, scanning, open_calls, rq_structured,
             rq_text>>
prep_vars == <<fb_vars, col_vars, cand_vars, reply_vars, kf_vars, rq_vars>>

\* ------------------------------------------------------------------------
\* The bot instance shared by the request threads of the web application
\* ------------------------------------------------------------------------
VARIABLES
    last_structured_results,    \* self.last_structured_results
    _cached_domain_filter,      \* self._cached_domain_filter
    _cached_perplexity_context, \* self._cached_perplexity_context
    cpc,                \* position of every request thread
    own_domain,         \* domain filter of the request's own analysis
    used_domain,        \* domain_filter handed to batch_process_events
    used_context,       \* external_context handed to batch_process_events
    reported_records,   \* what chat() got from get_structured_results
    reported_context    \* what chat() got from the context preview

shared_vars == <<last_structured_results, _cached_domain_filter,
                 _cached_perplexity_context, cpc, own_domain, used_domain,
                 used_context, reported_records, reported_context>>

vars == <<guard_vars, batch_vars, query_vars, prep_vars, shared_vars>>

Readers == 1..NumReaders
\* thread id of the sync service, and the value of a free lock
SyncTid == NumReaders + 1
NoHolder == 0 - 1

\* A file is absent, or a sequence of pages.  A database file starts with
\* the schema page "hdr" (the events table exists) followed by one page per
\* row: "A" for a row with is_active = 1, "I" for is_active = 0.
Absent == [exists |-> FALSE, pages |-> <<>>]
File(p) == [exists |-> TRUE, pages |-> p]

\* SELECT COUNT(*) FROM events WHERE is_active=1
RECURSIVE ActiveCountFrom(_, _)
ActiveCountFrom(p, i) ==
    IF i > Len(p) THEN 0
    ELSE (IF p[i] = "A" THEN 1 ELSE 0) + ActiveCountFrom(p, i + 1)
ActiveCount(f) == ActiveCountFrom(f.pages, 1)

\* the events table can be queried
HasSchema(f) == f.exists /\ Len(f.pages) >= 1 /\ f.pages[1] = "hdr"

\* the files a failed shutil.copy2(src, dst) can leave at dst: dst as it
\* was (the failure came before dst was opened) or a truncated prefix of src
Prefixes(f) == { File(SubSeq(f.pages, 1, n)) : n \in 0..(Len(f.pages) - 1) }
FailedCopyResults(src, dst) ==
    IF src.exists THEN {dst} \cup Prefixes(src) \cup {File(<<>>)} ELSE {dst}

\* the row pages of an events table of at most MaxRecords rows
Rows == UNION { [1..n -> {"A", "I"}] : n \in 0..MaxRecords }
\* the files WRITE_DB and READ_DB can be when the service starts
InitialFiles == { Absent } \cup { File(<<"hdr">> \o r) : r \in Rows }

GuardInit ==
    /\ variant \in {"root", "mcp"}
    /\ read_lock = NoHolder
    /\ active_reads = 0
    /\ rpc = [t \in Readers |-> "out"]
    /\ rtmp = [t \in Readers |-> 0]
    /\ rexc = [t \in Readers |-> FALSE]
    /\ spc = "idle"
    /\ wait_time = 0
    /\ write_db \in InitialFiles
    /\ read_db \in InitialFiles
    /\ backup_db = Absent
    /\ sync_result = "none"
    /\ alive = TRUE
    /\ pre_read = read_db
    /\ io_steps = {}
    /\ failed_step = "none"
    /\ polls_nonzero = TRUE
    /\ copy_count = 0


\* ------------------------------------------------------------------------
\* ReadTracker (reader threads)
\* ------------------------------------------------------------------------
sync_unchanged == UNCHANGED <<variant, spc, wait_time, write_db, read_db,
                              backup_db, sync_result, alive, pre_read,
                              io_steps, failed_step, polls_nonzero,
                              copy_count, batch_vars, query_vars,
                              prep_vars, shared_vars>>

\* threading.Lock: acquire succeeds only when nobody holds the lock
CanAcquire_Unlocked(t) == TRUE
CanAcquire(t) == read_lock = NoHolder

\* a request thread reaches "with ReadTracker():" and calls __enter__
ReadTracker_enter_call(t) ==
    /\ rpc[t] = "out"
    /\ rpc' = [rpc EXCEPT ![t] = "enter_wait"]
    /\ UNCHANGED <<read_lock, active_reads, rtmp, rexc>>
    /\ sync_unchanged

\* __enter__: "with read_lock:" and the load of active_reads for "+= 1"
ReadTracker_enter_acquire(t) ==
    /\ rpc[t] = "enter_wait"
    /\ CanAcquire(t)
    /\ read_lock' = t
    /\ rtmp' = [rtmp EXCEPT ![t] = active_reads]
    /\ rpc' = [rpc EXCEPT ![t] = "enter_locked"]
    /\ UNCHANGED <<active_reads, rexc>>
    /\ sync_unchanged

\* __enter__: the store of "active_reads += 1" and the release of the lock
ReadTracker_enter_store(t) ==
    /\ rpc[t] = "enter_locked"
    /\ active_reads' = rtmp[t] + 1
    /\ read_lock' = NoHolder
    /\ rpc' = [rpc EXCEPT ![t] = "in"]
    /\ rtmp' = [rtmp EXCEPT ![t] = 0]
    /\ UNCHANGED rexc
    /\ sync_unchanged

\* the body of the with-block (a scan of READ_DB) returns, or raises
ReadSection_body(t, raised) ==
    /\ rpc[t] = "in"
    /\ rexc' = [rexc EXCEPT ![t] = raised]
    /\ rpc' = [rpc EXCEPT ![t] = "exit_wait"]
    /\ UNCHANGED <<read_lock, active_reads, rtmp>>
    /\ sync_unchanged

\* __exit__: "with read_lock:" and the load of active_reads for "-= 1"
ReadTracker_exit_acquire(t) ==
    /\ rpc[t] = "exit_wait"
    /\ CanAcquire(t)
    /\ read_lock' = t
    /\ rtmp' = [rtmp EXCEPT ![t] = active_reads]
    /\ rpc' = [rpc EXCEPT ![t] = "exit_locked"]
    /\ UNCHANGED <<active_reads, rexc>>
    /\ sync_unchanged

\* __exit__: the store of "active_reads -= 1" and the release of the lock;
\* __exit__ returns None, so an exception of the body propagates afterwards
ReadTracker_exit_store(t) ==
    /\ rpc[t] = "exit_locked"
    /\ active_reads' = rtmp[t] - 1
    /\ read_lock' = NoHolder
    /\ rpc' = [rpc EXCEPT ![t] = "out"]
    /\ rexc' = [rexc EXCEPT ![t] = FALSE]
    /\ rtmp' = [rtmp EXCEPT ![t] = 0]
    /\ sync_unchanged


ReaderStep ==
    \/ \E t \in Readers : ReadTracker_enter_call(t)
    \/ \E t \in Readers : ReadTracker_enter_acquire(t)
    \/ \E t \in Readers : ReadTracker_enter_store(t)
    \/ \E t \in Readers, raised \in BOOLEAN : ReadSection_body(t, raised)
    \/ \E t \in Readers : ReadTracker_exit_acquire(t)
    \/ \E t \in Readers : ReadTracker_exit_store(t)


\* ------------------------------------------------------------------------
\* sync_databases and run_sync_service (the sync service)
\* ------------------------------------------------------------------------
reader_unchanged ==
    UNCHANGED <<rpc, rtmp, rexc, batch_vars, query_vars, prep_vars,
                shared_vars>>

\* "return r" of sync_databases: run_sync_service sleeps until the next pass
Return(r) == spc' = "idle" /\ sync_result' = r

\* an exception leaves sync_databases: run_sync_service has no handler for
\* it, the service loop ends
Propagate == spc' = "idle" /\ sync_result' = "raised" /\ alive' = FALSE

\* control enters "except Exception" after step s raised
Raise(s) == spc' = "except" /\ failed_step' = s

\* run_sync_service: time.sleep(interval) is over, sync_databases() is called
run_sync_service ==
    /\ alive
    /\ spc = "idle"
    /\ spc' = "check_write"
    /\ sync_result' = "running"
    /\ pre_read' = read_db
    /\ io_steps' = {}
    /\ failed_step' = "none"
    /\ polls_nonzero' = TRUE
    /\ wait_time' = 0
    /\ copy_count' = 0
    /\ UNCHANGED <<variant, read_lock, active_reads, write_db, read_db,
                   backup_db, alive>>
    /\ reader_unchanged

\* "if not write_db_path.exists()": db_sync.py builds an empty database with
\* the schema and returns False when that fails; db_sync_service.py touches
\* an empty file outside of any try block
sync_check_write(ok) ==
    /\ spc = "check_write"
    /\ IF write_db.exists
       THEN /\ ok
            /\ spc' = "poll"
            /\ UNCHANGED <<write_db, sync_result, alive, failed_step>>
       ELSE IF variant = "root"
       THEN IF ok
            THEN /\ write_db' = File(<<"hdr">>)
                 /\ spc' = "poll"
                 /\ UNCHANGED <<sync_result, alive, failed_step>>
            ELSE /\ Return("false")
                 /\ failed_step' = "init_write"
                 /\ UNCHANGED <<write_db, alive>>
       ELSE IF ok
            THEN /\ write_db' = File(<<>>)
                 /\ spc' = "poll"
                 /\ UNCHANGED <<sync_result, alive, failed_step>>
            ELSE /\ Propagate
                 /\ failed_step' = "init_write"
                 /\ UNCHANGED write_db
    /\ UNCHANGED <<variant, read_lock, active_reads, wait_time, read_db,
                   backup_db, pre_read, io_steps, polls_nonzero, copy_count>>
    /\ reader_unchanged

\* get_active_reads: "with read_lock:"
get_active_reads_acquire ==
    /\ spc \in {"poll", "final"}
    /\ CanAcquire(SyncTid)
    /\ read_lock' = SyncTid
    /\ spc' = IF spc = "poll" THEN "poll_locked" ELSE "final_locked"
    /\ UNCHANGED <<variant, active_reads, wait_time, write_db, read_db,
                   backup_db, sync_result, alive, pre_read, io_steps,
                   failed_step, polls_nonzero, copy_count>>
    /\ reader_unchanged

\* what get_active_reads does to the lock when it returns active_reads
LockAfterGet_Held == SyncTid
LockAfterGet == NoHolder

\* "while get_active_reads() > 0 and wait_time < max_wait": the counter is
\* returned and the lock released
sync_poll ==
    /\ spc = "poll_locked"
    /\ read_lock' = LockAfterGet
    /\ polls_nonzero' = (polls_nonzero /\ active_reads > 0)
    /\ spc' = IF active_reads > 0 /\ wait_time < MaxWaitTicks
              THEN "sleep" ELSE "final"
    /\ UNCHANGED <<variant, active_reads, wait_time, write_db, read_db,
                   backup_db, sync_result, alive, pre_read, io_steps,
                   failed_step, copy_count>>
    /\ reader_unchanged

\* "time.sleep(0.1); wait_time += 0.1"
sync_sleep ==
    /\ spc = "sleep"
    /\ wait_time' = wait_time + 1
    /\ spc' = "poll"
    /\ UNCHANGED <<variant, read_lock, active_reads, write_db, read_db,
                   backup_db, sync_result, alive, pre_read, io_steps,
                   failed_step, polls_nonzero, copy_count>>
    /\ reader_unchanged

\* where sync_databases goes after the wait loop, given the counter it reads
AfterWait_NoCheck(n) == "backup"
AfterWait(n) == IF n > 0 THEN "idle" ELSE "backup"

\* "if get_active_reads() > 0: ... return False" (the message printed on
\* this path reads the counter once more, with no effect on the pass)
sync_final_check ==
    /\ spc = "final_locked"
    /\ read_lock' = LockAfterGet
    /\ polls_nonzero' = (polls_nonzero /\ active_reads > 0)
    /\ spc' = AfterWait(active_reads)
    /\ sync_result' = IF AfterWait(active_reads) = "idle"
                      THEN "false" ELSE sync_result
    /\ UNCHANGED <<variant, active_reads, wait_time, write_db, read_db,
                   backup_db, alive, pre_read, io_steps, failed_step,
                   copy_count>>
    /\ reader_unchanged


\* "if read_db_path.exists(): shutil.copy2(READ_DB, backup_path)"
sync_backup(ok) ==
    /\ spc = "backup"
    /\ IF ~read_db.exists
       THEN /\ ok
            /\ spc' = "copy_open"
            /\ UNCHANGED <<backup_db, io_steps, failed_step>>
       ELSE /\ io_steps' = io_steps \cup {"backup"}
            /\ IF ok
               THEN /\ backup_db' = read_db
                    /\ spc' = "copy_open"
                    /\ UNCHANGED failed_step
               ELSE /\ backup_db' \in FailedCopyResults(read_db, backup_db)
                    /\ Raise("backup")
    /\ UNCHANGED <<variant, read_lock, active_reads, wait_time, write_db,
                   read_db, sync_result, alive, pre_read, polls_nonzero,
                   copy_count>>
    /\ reader_unchanged

\* "shutil.copy2(WRITE_DB, READ_DB)": the source is opened and the
\* destination is opened for writing, which truncates it
sync_copy_open(ok) ==
    /\ spc = "copy_open"
    /\ io_steps' = io_steps \cup {"copy"}
    /\ IF ok /\ write_db.exists
       THEN /\ read_db' = File(<<>>)
            /\ copy_count' = ActiveCount(write_db)
            /\ spc' = "copy_write"
            /\ UNCHANGED failed_step
       ELSE /\ Raise("copy")
            /\ UNCHANGED <<read_db, copy_count>>
    /\ UNCHANGED <<variant, read_lock, active_reads, wait_time, write_db,
                   backup_db, sync_result, alive, pre_read, polls_nonzero>>
    /\ reader_unchanged

\* shutil.copy2: the next block of WRITE_DB, as it is now, is appended to
\* READ_DB; at end of file the copy is complete
sync_copy_write(ok) ==
    /\ spc = "copy_write"
    /\ IF ~ok
       THEN /\ Raise("copy")
            /\ UNCHANGED read_db
       ELSE IF Len(read_db.pages) < Len(write_db.pages)
       THEN /\ read_db' = File(Append(read_db.pages,
                                      write_db.pages[Len(read_db.pages) + 1]))
            /\ UNCHANGED <<spc, failed_step>>
       ELSE /\ spc' = "verify"
            /\ UNCHANGED <<read_db, failed_step>>
    /\ UNCHANGED <<variant, read_lock, active_reads, wait_time, write_db,
                   backup_db, sync_result, alive, pre_read, io_steps,
                   polls_nonzero, copy_count>>
    /\ reader_unchanged

\* "SELECT COUNT(*) FROM events WHERE is_active=1" on READ_DB: raises when
\* the file has no events table, or when the connection fails
sync_verify(ok) ==
    /\ spc = "verify"
    /\ io_steps' = io_steps \cup {"verify"}
    /\ IF ok /\ HasSchema(read_db)
       THEN spc' = "unlink" /\ UNCHANGED failed_step
       ELSE Raise("verify")
    /\ UNCHANGED <<variant, read_lock, active_reads, wait_time, write_db,
                   read_db, backup_db, sync_result, alive, pre_read,
                   polls_nonzero, copy_count>>
    /\ reader_unchanged

\* "if backup_path.exists(): backup_path.unlink()" and "return True"
sync_unlink(ok) ==
    /\ spc = "unlink"
    /\ IF ~backup_db.exists
       THEN /\ ok
            /\ Return("true")
            /\ UNCHANGED <<backup_db, io_steps, failed_step>>
       ELSE /\ io_steps' = io_steps \cup {"unlink"}
            /\ IF ok
               THEN /\ backup_db' = Absent
                    /\ Return("true")
                    /\ UNCHANGED failed_step
               ELSE /\ Raise("unlink")
                    /\ UNCHANGED <<backup_db, sync_result>>
    /\ UNCHANGED <<variant, read_lock, active_reads, wait_time, write_db,
                   read_db, alive, pre_read, polls_nonzero, copy_count>>
    /\ reader_unchanged

\* "except Exception": db_sync.py copies the backup, when there is one, over
\* READ_DB and returns False (a failure of that copy leaves the handler as an
\* exception); db_sync_service.py returns False
sync_except(ok) ==
    /\ spc = "except"
    /\ IF variant = "root" /\ backup_db.exists
       THEN /\ io_steps' = io_steps \cup {"restore"}
            /\ IF ok
               THEN /\ read_db' = backup_db
                    /\ Return("false")
                    /\ UNCHANGED alive
               ELSE /\ read_db' \in FailedCopyResults(backup_db, read_db)
                    /\ Propagate
       ELSE /\ ok
            /\ Return("false")
            /\ UNCHANGED <<read_db, alive, io_steps>>
    /\ UNCHANGED <<variant, read_lock, active_reads, wait_time, write_db,
                   backup_db, pre_read, failed_step, polls_nonzero,
                   copy_count>>
    /\ reader_unchanged

SyncStep ==
    \/ run_sync_service
    \/ \E ok \in BOOLEAN : sync_check_write(ok)
    \/ get_active_reads_acquire
    \/ sync_poll
    \/ sync_sleep
    \/ sync_final_check
    \/ \E ok \in BOOLEAN : sync_backup(ok)
    \/ \E ok \in BOOLEAN : sync_copy_open(ok)
    \/ \E ok \in BOOLEAN : sync_copy_write(ok)
    \/ \E ok \in BOOLEAN : sync_verify(ok)
    \/ \E ok \in BOOLEAN : sync_unlink(ok)
    \/ \E ok \in BOOLEAN : sync_except(ok)

\* ------------------------------------------------------------------------
\* The writer process (update_market_data.py, database.py)
\* ------------------------------------------------------------------------
writer_unchanged == UNCHANGED <<variant, read_lock, active_reads, rpc, rtmp,
                                rexc, spc, wait_time, read_db, backup_db,
                                sync_result, alive, pre_read, io_steps,
                                failed_step, polls_nonzero, copy_count,
                                batch_vars, query_vars, prep_vars,
                                shared_vars>>

\* Database.__init__: create_all builds the schema when the file lacks it
Database_init ==
    /\ ~HasSchema(write_db)
    /\ write_db' = File(<<"hdr">>)
    /\ writer_unchanged

\* add_or_update_event, "Create new" branch: a row with is_active=True
add_or_update_event_new ==
    /\ HasSchema(write_db)
    /\ Len(write_db.pages) < 1 + MaxRecords
    /\ write_db' = File(Append(write_db.pages, "A"))
    /\ writer_unchanged

\* add_or_update_event, "Update existing" branch: event.is_active = True
add_or_update_event_existing(i) ==
    /\ HasSchema(write_db)
    /\ i + 1 <= Len(write_db.pages)
    /\ write_db' = File([write_db.pages EXCEPT ![i + 1] = "A"])
    /\ writer_unchanged

\* mark_inactive_events: the active rows whose id is not in active_event_ids
\* (here: the rows of gone) get is_active = False in one commit
mark_inactive_events(gone) ==
    /\ HasSchema(write_db)
    /\ write_db' = File([k \in 1..Len(write_db.pages) |->
                            IF k - 1 \in gone /\ write_db.pages[k] = "A"
                            THEN "I" ELSE write_db.pages[k]])
    /\ writer_unchanged

WriterStep ==
    \/ Database_init
    \/ add_or_update_event_new
    \/ \E i \in 1..MaxRecords : add_or_update_event_existing(i)
    \/ \E gone \in SUBSET (1..MaxRecords) : mark_inactive_events(gone)

GuardNext == ReaderStep \/ SyncStep \/ WriterStep

\* ------------------------------------------------------------------------
\* Batch semantic scorer: the store, the query and pure helpers
\* ------------------------------------------------------------------------
\* ThreadPoolExecutor(max_workers=min(len(batches_to_process), 4))
MaxWorkers == 4
\* "min_expected = max(5, user_limit or 5)"
MinExpectedFloor == 5
\* "fallback_limit = max(min_expected * 2, 15)"
FallbackLimitFloor == 15
\* score given to a triple that has no score field
DefaultScore == 75
\* _keyword_sql_fallback: "base_score = 72 + min(match_hits, 5) * 4",
\* "min(base_score, 95)"
FallbackBase == 72
FallbackStep == 4
FallbackHitCap == 5
FallbackCeiling == 95
DEFAULT_DISPLAY_LIMIT == 20
\* user_limit = None
NoLimit == 0 - 1
\* "display_limit = user_limit if user_limit else DEFAULT_DISPLAY_LIMIT"
\* (execute_sql_query and _format_final_answer)
DisplayLimit_Default(limit) == DEFAULT_DISPLAY_LIMIT
DisplayLimit(limit) ==
    IF limit # NoLimit /\ limit # 0 THEN limit ELSE DEFAULT_DISPLAY_LIMIT

\* The store: events 1..NumEvents, all active, id = index.  Volume(e) is the
\* volume column; Hits(e) is the number of distinct terms of the query
\* (keywords and phrases) that occur in the title or description of e, when
\* the query has any.
Ev == 1..NumEvents
\* volumes fall with the id, and the last two events have the same volume
Volume(e) == IF e = NumEvents THEN 100 ELSE (NumEvents - e) * 100
Hits(e) == e % 3
\* "getattr(e, 'volume', 0) or 0"; ORDER BY volume DESC puts a NULL volume
\* after every number, as this value does (the volumes are positive)
VolumeOrZero(e) == IF e \in null_volume THEN 0 ELSE Volume(e)
\* an id no event of the store has (a hallucinated id in a reply)
HallucinatedId == NumEvents + 1

Max(a, b) == IF a >= b THEN a ELSE b
Min(a, b) == IF a <= b THEN a ELSE b
Take(s, n) == SubSeq(s, 1, Min(n, Len(s)))
SeqToSet(s) == { s[i] : i \in 1..Len(s) }
NoDuplicates(s) == \A i, j \in 1..Len(s) : i # j => s[i] # s[j]

\* comparison of the (primary, secondary) key tuples Python sorts by
KeyLess_PrimaryOnly(k1, k2) == k1[1] < k2[1]
KeyLess(k1, k2) == k1[1] < k2[1] \/ (k1[1] = k2[1] /\ k1[2] < k2[2])

\* list.sort(key=..., reverse=True): descending and stable; key is a
\* function from event ids to key tuples
RECURSIVE InsertDesc(_, _, _)
InsertDesc(s, x, key) ==
    IF s = <<>> THEN <<x>>
    ELSE IF KeyLess(key[Head(s)], key[x]) THEN <<x>> \o s
    ELSE <<Head(s)>> \o InsertDesc(Tail(s), x, key)
RECURSIVE SortDescFrom(_, _, _)
SortDescFrom(done, rest, key) ==
    IF rest = <<>> THEN done
    ELSE SortDescFrom(InsertDesc(done, Head(rest), key), Tail(rest), key)
SortDescBy(s, key) == SortDescFrom(<<>>, s, key)

RECURSIVE Filter(_, _)
Filter(s, keep) ==
    IF s = <<>> THEN <<>>
    ELSE (IF Head(s) \in keep THEN <<Head(s)>> ELSE <<>>)
         \o Filter(Tail(s), keep)

\* "query.order_by(Event.volume.desc()).all()" over the active events
ActiveByVolume ==
    SortDescBy([i \in 1..NumEvents |-> i],
               [e \in Ev |-> <<VolumeOrZero(e), 0>>])

\* _prefilter_events_by_keywords(events, keywords, phrases, min_results,
\* max_results), for events whose keyword scores and volumes ("getattr(e,
\* 'volume', 0) or 0") are the given functions of their ids
PrefilterEvents(events, kw, score, volume, min_results, max_results) ==
    IF events = <<>> \/ ~kw THEN events
    ELSE LET ids == SeqToSet(events)
             filtered == Filter(events, { e \in ids : score[e] > 0 })
             others == Filter(events, { e \in ids : score[e] = 0 })
             trimmed == Take(SortDescBy(filtered,
                                 [e \in ids |-> <<score[e], volume[e]>>]),
                             max_results)
         IN IF filtered = <<>> THEN events
            ELSE IF Len(trimmed) < min_results /\ others # <<>>
            THEN trimmed \o Take(SortDescBy(others,
                                     [e \in ids |-> <<volume[e], 0>>]),
                                 min_results - Len(trimmed))
            ELSE trimmed
\* a keyword hit scores 2
KeywordScore(e) == 2 * Hits(e)
_prefilter_events_by_keywords(events, kw, min_results, max_results) ==
    PrefilterEvents(events, kw, [e \in Ev |-> KeywordScore(e)],
                    [e \in Ev |-> VolumeOrZero(e)], min_results, max_results)

\* the batch size used to cut events_for_batches
CeilDiv(a, b) == (a + b - 1) \div b
optimal_batch_size(v, total) ==
    IF v = "root" THEN BatchSize
    ELSE Max(BatchSize, CeilDiv(total, MaxBatches))

\* batches_to_process: consecutive slices, "break" after max_batches
Partition_NoCap(events, size) ==
    [k \in 1..CeilDiv(Len(events), size) |->
        SubSeq(events, (k - 1) * size + 1, Min(k * size, Len(events)))]
Partition(events, size) ==
    [k \in 1..Min(MaxBatches, CeilDiv(Len(events), size)) |->
        SubSeq(events, (k - 1) * size + 1, Min(k * size, Len(events)))]

\* A triple of a reply: "id" alone (parts = 1) or "id:score:reason"
\* (parts = 3) whose score field is the text of an integer or not.
ScoreValues == {69, 90, 101}
ReplyIds == Ev \cup {HallucinatedId}
Triples ==
    { [id |-> i, parts |-> 1, parsable |-> TRUE, score |-> 0] : i \in ReplyIds }
    \cup { [id |-> i, parts |-> 3, parsable |-> TRUE, score |-> v] :
              i \in ReplyIds, v \in ScoreValues }
    \cup { [id |-> i, parts |-> 3, parsable |-> FALSE, score |-> 0] :
              i \in ReplyIds }
\* The triples considered in a reply for the batch with the given ids: every
\* shape for the ids of the batch, and one well-formed triple for each id
\* outside of it (such a triple is dropped whatever its shape).
TriplesFor(ids) ==
    { tr \in Triples :
        tr.id \in ids \/ (tr.parts = 3 /\ tr.parsable /\ tr.score = 90) }

\* the try block of the triple loop: ok is FALSE when int() raised
\* ValueError and the triple was skipped by "continue"
ParseTriple(tr) ==
    IF tr.parts >= 2
    THEN IF tr.parsable
         THEN [ok |-> TRUE, id |-> tr.id, score |-> tr.score,
               reasoning |-> "reply"]
         ELSE [ok |-> FALSE, id |-> tr.id, score |-> 0, reasoning |-> ""]
    ELSE [ok |-> TRUE, id |-> tr.id, score |-> DefaultScore,
          reasoning |-> "relevant match"]

\* the text of an exception of the completion call, as the set of the
\* signatures it contains
ErrorMessages == { {}, {"quota"}, {"rate"}, {"429"} }
IsRateLimit(msg) == "quota" \in msg \/ "rate" \in msg \/ "429" \in msg

\* "for event_id, matching_event in batch_matches: if event_id not in
\* seen_event_ids: ..." ; the result is the pair (all_matches, seen)
AcceptId_NoDedup(acc, id) ==
    [m |-> Append(acc.m, id), s |-> acc.s \cup {id}]
AcceptId(acc, id) ==
    IF id \in acc.s THEN acc
    ELSE [m |-> Append(acc.m, id), s |-> acc.s \cup {id}]
RECURSIVE AddMatches(_, _)
AddMatches(acc, ids) ==
    IF ids = <<>> THEN acc
    ELSE AddMatches(AcceptId(acc, Head(ids)), Tail(ids))

Unset == [set |-> FALSE, score |-> 0, reasoning |-> ""]
\* getattr(e, 'relevance_score', 0)
RelevanceOf(a, e) == IF a[e].set THEN a[e].score ELSE 0

\* _keyword_sql_fallback: rows matched by the LIKE terms, by volume, limited
KeywordFallbackRows(kw, limit) ==
    IF ~kw THEN <<>>
    ELSE Take(Filter(ActiveByVolume, { e \in Ev : Hits(e) > 0 }), limit)
\* "base_score = 72 + min(match_hits, 5) * 4" and "min(base_score, 95)"
FallbackRelevance_Unbounded(match_hits) ==
    FallbackBase + match_hits * FallbackStep
FallbackRelevance(match_hits) ==
    Min(FallbackBase + Min(match_hits, FallbackHitCap) * FallbackStep,
        FallbackCeiling)
FallbackScore(e) == FallbackRelevance(Hits(e))

\* ------------------------------------------------------------------------
\* batch_process_events
\* ------------------------------------------------------------------------
BatchNums == 1..MaxBatches
\* batch_error = None
NoError == [kind |-> "none", msg |-> {}]
\* what the as_completed loop does with the batch_error of a future
OnBatchError_Absorb(err) == "continue"
OnBatchError(err) == IF err.kind = "rate_limit" THEN "return" ELSE "continue"
NoBatches == [k \in BatchNums |-> <<>>]

BatchInit ==
    /\ has_keywords \in BOOLEAN
    /\ use_prefetch \in BOOLEAN
    /\ user_limit \in {0, 2}
    /\ null_volume \in {{}, {NumEvents}}
    /\ bpc = "start"
    /\ all_events = <<>>
    /\ events_for_batches = <<>>
    /\ batches = <<>>
    /\ bstate = [k \in BatchNums |-> "none"]
    /\ batch_matches = NoBatches
    /\ batch_error = [k \in BatchNums |-> NoError]
    /\ calls = [k \in BatchNums |-> 0]
    /\ completed = <<>>
    /\ attr = [e \in Ev |-> Unset]
    /\ all_matches = <<>>
    /\ seen_event_ids = {}
    /\ batch_errors = <<>>
    /\ fallback_ran = FALSE
    /\ fallback_added = {}
    /\ display_events = <<>>
    /\ total_count = 0
    /\ result = "none"

\* the guard variables do not move while a query is scored
guard_unchanged ==
    UNCHANGED <<guard_vars, query_vars, prep_vars, shared_vars>>

\* the events the SQL prefilter of process_query hands over: the active
\* events matching a keyword (none when the query has no keyword)
PrefetchedEvents(kw) ==
    IF kw THEN Filter(ActiveByVolume, { e \in Ev : Hits(e) > 0 }) ELSE <<>>

\* from "if prefetched_events is not None" to the end of the batch
\* preparation loop
batch_prepare ==
    /\ bpc = "start"
    /\ LET fetched == IF use_prefetch THEN PrefetchedEvents(has_keywords)
                      ELSE ActiveByVolume
           filtered == IF variant = "root"
                       THEN _prefilter_events_by_keywords(fetched,
                                has_keywords, MinResults,
                                BatchSize * MaxBatches)
                       ELSE fetched
           chosen == IF filtered # <<>> THEN filtered ELSE fetched
           cut == Partition(chosen,
                            optimal_batch_size(variant, Len(chosen)))
       IN /\ all_events' = fetched
          /\ IF fetched = <<>>
             THEN /\ result' = "no_active_events"
                  /\ bpc' = "done"
                  /\ UNCHANGED <<events_for_batches, batches, bstate>>
             ELSE /\ events_for_batches' = chosen
                  /\ batches' = cut
                  /\ bstate' = [k \in BatchNums |->
                                   IF k <= Len(cut) THEN "queued" ELSE "none"]
                  /\ bpc' = "merge"
                  /\ UNCHANGED result
    /\ UNCHANGED <<has_keywords, use_prefetch, user_limit, null_volume,
                   display_events, total_count,
                   batch_matches, batch_error, calls, completed, attr,
                   all_matches, seen_event_ids, batch_errors, fallback_ran,
                   fallback_added>>
    /\ guard_unchanged

Running == { k \in BatchNums : bstate[k] = "running" }

\* a worker of the executor takes the next submitted batch and issues its
\* completion call (_call_gemini)
worker_start(b) ==
    /\ bpc \in {"merge", "shutdown"}
    /\ bstate[b] = "queued"
    /\ \A k \in 1..(b - 1) : bstate[k] # "queued"
    /\ Cardinality(Running) < Min(Len(batches), MaxWorkers)
    /\ bstate' = [bstate EXCEPT ![b] = "running"]
    /\ calls' = [calls EXCEPT ![b] = @ + 1]
    /\ UNCHANGED <<has_keywords, use_prefetch, user_limit, null_volume,
                   display_events, total_count, bpc, all_events,
                   events_for_batches, batches,  batch_matches,
                   batch_error, completed, attr, all_matches, seen_event_ids,
                   batch_errors, fallback_ran, fallback_added, result>>
    /\ guard_unchanged

\* the completion call raises: "except Exception as e" of
\* process_single_batch, which returns (batch_num, [], batch_error)
call_raises(b, msg) ==
    /\ bstate[b] = "running"
    /\ batch_error' = [batch_error EXCEPT ![b] =
                          [kind |-> IF IsRateLimit(msg) THEN "rate_limit"
                                    ELSE "error",
                           msg |-> msg]]
    /\ bstate' = [bstate EXCEPT ![b] = "done"]
    /\ completed' = Append(completed, b)
    /\ UNCHANGED <<has_keywords, use_prefetch, user_limit, null_volume,
                   display_events, total_count, bpc, all_events,
                   events_for_batches, batches,  batch_matches, calls,
                   attr, all_matches, seen_event_ids, batch_errors,
                   fallback_ran, fallback_added, result>>
    /\ guard_unchanged

\* the loop "for triple in id_score_reason_triples" over the triples of a
\* reply, for the batch with the given ids: acc is the pair (event
\* attributes, batch_matches)
ParseStep_AnyId(ids, acc, tr) ==
    LET p == ParseTriple(tr)
    IN IF p.ok
       THEN [a |-> [acc.a EXCEPT ![p.id] =
                       [set |-> TRUE, score |-> p.score,
                        reasoning |-> p.reasoning]],
             m |-> Append(acc.m, p.id)]
       ELSE acc
ParseStep(ids, acc, tr) ==
    LET p == ParseTriple(tr)
    IN IF p.ok /\ p.id \in ids
       THEN [a |-> [acc.a EXCEPT ![p.id] =
                       [set |-> TRUE, score |-> p.score,
                        reasoning |-> p.reasoning]],
             m |-> Append(acc.m, p.id)]
       ELSE acc
RECURSIVE ParseReply(_, _, _)
ParseReply(ids, acc, reply) ==
    IF reply = <<>> THEN acc
    ELSE ParseReply(ids, ParseStep(ids, acc, Head(reply)), Tail(reply))

\* the replies a completion call can give for a batch: up to MaxTriples
\* triples (none for the sentinel NONE)
Replies(ids) == UNION { [1..n -> TriplesFor(ids)] : n \in 0..MaxTriples }

\* the completion call returns: process_single_batch parses the reply and
\* returns (batch_num, batch_matches, None)
call_returns(b, none, reply) ==
    /\ bstate[b] = "running"
    /\ none => reply = <<>>
    /\ LET acc == ParseReply(SeqToSet(batches[b]),
                             [a |-> attr, m |-> <<>>], reply)
       IN /\ attr' = acc.a
          /\ batch_matches' = [batch_matches EXCEPT ![b] = acc.m]
    /\ bstate' = [bstate EXCEPT ![b] = "done"]
    /\ completed' = Append(completed, b)
    /\ UNCHANGED <<has_keywords, use_prefetch, user_limit, null_volume,
                   display_events, total_count, bpc, all_events,
                   events_for_batches, batches, batch_error, calls,
                   all_matches, seen_event_ids, batch_errors, fallback_ran,
                   fallback_added, result>>
    /\ guard_unchanged

\* one turn of "for future in as_completed(future_to_batch)"
merge_next ==
    /\ bpc = "merge"
    /\ completed # <<>>
    /\ LET b == Head(completed)
           acc == AddMatches([m |-> all_matches, s |-> seen_event_ids],
                             batch_matches[b])
           last == \A k \in 1..Len(batches) : k # b => bstate[k] = "merged"
       IN /\ completed' = Tail(completed)
          /\ bstate' = [bstate EXCEPT ![b] = "merged"]
          /\ IF OnBatchError(batch_error[b]) = "return"
             THEN /\ result' = "rate_limited"
                  /\ bpc' = "shutdown"
                  /\ UNCHANGED <<all_matches, seen_event_ids, batch_errors>>
             ELSE /\ batch_errors' = IF batch_error[b].kind # "none"
                                     THEN Append(batch_errors, b)
                                     ELSE batch_errors
                  /\ all_matches' = acc.m
                  /\ seen_event_ids' = acc.s
                  /\ bpc' = IF last THEN "fallback" ELSE "merge"
                  /\ UNCHANGED result
    /\ UNCHANGED <<has_keywords, use_prefetch, user_limit, null_volume,
                   display_events, total_count, all_events,
                   events_for_batches, batches,  batch_matches,
                   batch_error, calls, attr, fallback_ran, fallback_added>>
    /\ guard_unchanged

\* "return" inside the with-block: ThreadPoolExecutor.__exit__ waits for
\* the submitted batches, whose results are dropped
executor_shutdown ==
    /\ bpc = "shutdown"
    /\ \A k \in 1..Len(batches) : bstate[k] \in {"done", "merged"}
    /\ bpc' = "done"
    /\ UNCHANGED <<has_keywords, use_prefetch, user_limit, null_volume,
                   display_events, total_count, all_events,
                   events_for_batches, batches, bstate,
                   batch_matches, batch_error, calls, completed, attr,
                   all_matches, seen_event_ids, batch_errors, fallback_ran,
                   fallback_added, result>>
    /\ guard_unchanged

\* "min_expected = max(5, user_limit or 5)"
MinExpected(limit) ==
    Max(MinExpectedFloor,
        IF limit # 0 /\ limit # NoLimit THEN limit ELSE MinExpectedFloor)
\* "if len(all_matches) < min_expected"; db_sync_service's bot has no
\* fallback block
FallbackNeeded(v, n, limit) == v = "root" /\ n < MinExpected(limit)

RECURSIVE SetFallbackAttrs(_, _)
SetFallbackAttrs(a, rows) ==
    IF rows = <<>> THEN a
    ELSE SetFallbackAttrs([a EXCEPT ![Head(rows)] =
                              [set |-> TRUE, score |-> FallbackScore(Head(rows)),
                               reasoning |-> "keyword"]],
                          Tail(rows))

\* "min_expected = max(5, user_limit or 5)" and the fallback block; the rows
\* of _keyword_sql_fallback are the session's objects for those events, so
\* the attributes it sets are those of the events already matched.
\* db_sync_service's bot has no fallback block.
keyword_fallback ==
    /\ bpc = "fallback"
    /\ LET min_expected == MinExpected(user_limit)
           rows == KeywordFallbackRows(has_keywords,
                       Max(min_expected * 2, FallbackLimitFloor))
           acc == AddMatches([m |-> all_matches, s |-> seen_event_ids], rows)
       IN IF FallbackNeeded(variant, Len(all_matches), user_limit)
          THEN /\ fallback_ran' = TRUE
               /\ attr' = SetFallbackAttrs(attr, rows)
               /\ all_matches' = acc.m
               /\ seen_event_ids' = acc.s
               /\ fallback_added' = acc.s \ seen_event_ids
          ELSE UNCHANGED <<fallback_ran, attr, all_matches, seen_event_ids,
                           fallback_added>>
    /\ bpc' = "sort"
    /\ UNCHANGED <<has_keywords, use_prefetch, user_limit, null_volume,
                   display_events, total_count, all_events,
                   events_for_batches, batches, bstate,
                   batch_matches, batch_error, calls, completed, batch_errors,
                   result>>
    /\ guard_unchanged

\* "all_matches.sort(key=lambda e: (relevance_score, volume), reverse=True)":
\* the key tuples of two matches of equal relevance are compared on their
\* volumes, and comparing None with a number raises TypeError
SortRaises(matches, a) ==
    \E x, y \in SeqToSet(matches) :
        /\ RelevanceOf(a, x) = RelevanceOf(a, y)
        /\ x \in null_volume
        /\ y \notin null_volume

\* "all_matches.sort(...)", the return statements after it with
\* _format_final_answer, and the "except Exception" of the function
sort_and_format ==
    /\ bpc = "sort"
    /\ LET sorted == SortDescBy(all_matches,
                         [e \in Ev |-> <<RelevanceOf(attr, e),
                                         VolumeOrZero(e)>>])
       IN IF SortRaises(all_matches, attr)
          THEN /\ result' = "exception"
               /\ UNCHANGED <<all_matches, display_events, total_count>>
          ELSE /\ all_matches' = sorted
               /\ IF sorted = <<>>
                  THEN /\ result' = IF batch_errors # <<>> THEN "error"
                                    ELSE "no_results"
                       /\ UNCHANGED <<display_events, total_count>>
                  ELSE /\ result' = "formatted"
                       /\ display_events' =
                              Take(sorted, DisplayLimit(user_limit))
                       /\ total_count' = Len(sorted)
    /\ bpc' = "done"
    /\ UNCHANGED <<has_keywords, use_prefetch, user_limit, null_volume,
                   all_events, events_for_batches, batches, bstate,
                   batch_matches, batch_error, calls, completed, attr,
                   seen_event_ids, batch_errors, fallback_ran, fallback_added>>
    /\ guard_unchanged

BatchNext ==
    \/ batch_prepare
    \/ \E b \in BatchNums : worker_start(b)
    \/ \E b \in BatchNums, msg \in ErrorMessages : call_raises(b, msg)
    \/ \E b \in 1..Len(batches), none \in BOOLEAN :
          \E reply \in Replies(SeqToSet(batches[b])) :
              call_returns(b, none, reply)
    \/ merge_next
    \/ executor_shutdown
    \/ keyword_fallback
    \/ sort_and_format

\* ------------------------------------------------------------------------
\* process_single_batch and the merge of its result: one batch, any reply
\* ------------------------------------------------------------------------
\* the batches of a store whose events are all candidates
ReplyBatches ==
    SeqToSet(Partition([i \in 1..NumEvents |-> i], BatchSize))
\* the text of a reply: the sentinel NONE, or a list of triples (the empty
\* list stands for an empty text)
ReplyTexts(ids) ==
    { [none |-> TRUE, triples |-> <<>>] }
    \cup { [none |-> FALSE, triples |-> r] : r \in Replies(ids) }
\* the matches merged before this batch completes: events of other batches,
\* in the order they were accepted
PriorMatches(ids) ==
    { Filter([i \in 1..NumEvents |-> i], S) : S \in SUBSET (Ev \ ids) }

ReplyInit ==
    /\ reply_pc = "called"
    /\ reply_batch \in ReplyBatches
    /\ reply_text \in ReplyTexts(SeqToSet(reply_batch))
    /\ prior_matches \in PriorMatches(SeqToSet(reply_batch))
    /\ reply_attr = [e \in Ev |->
                        IF e \in SeqToSet(prior_matches)
                        THEN [set |-> TRUE, score |-> 90,
                              reasoning |-> "reply"]
                        ELSE Unset]
    /\ reply_matches = <<>>
    /\ merged_matches = prior_matches

reply_frame ==
    UNCHANGED <<guard_vars, batch_vars, query_vars, shared_vars, fb_vars,
                col_vars, cand_vars, kf_vars, rq_vars>>

\* process_single_batch from the return of _call_gemini: 'if result.upper()
\* != "NONE"' and the loop over the triples
process_single_batch ==
    /\ reply_pc = "called"
    /\ LET acc == IF reply_text.none
                  THEN [a |-> reply_attr, m |-> <<>>]
                  ELSE ParseReply(SeqToSet(reply_batch),
                                  [a |-> reply_attr, m |-> <<>>],
                                  reply_text.triples)
       IN /\ reply_attr' = acc.a
          /\ reply_matches' = acc.m
    /\ reply_pc' = "returned"
    /\ UNCHANGED <<reply_batch, reply_text, prior_matches, merged_matches>>
    /\ reply_frame

\* the turn of the as_completed loop for this batch: "Add matches, avoiding
\* duplicates"
merge_batch_matches ==
    /\ reply_pc = "returned"
    /\ merged_matches' =
           AddMatches([m |-> merged_matches, s |-> SeqToSet(merged_matches)],
                      reply_matches).m
    /\ reply_pc' = "merged"
    /\ UNCHANGED <<reply_batch, reply_text, reply_attr, reply_matches,
                   prior_matches>>
    /\ reply_frame

ReplyNext == process_single_batch \/ merge_batch_matches

\* ------------------------------------------------------------------------
\* _keyword_sql_fallback: the relevance it gives, for up to MaxTerms terms
\* ------------------------------------------------------------------------
Terms == 1..MaxTerms
FallbackRowIds == 1..2

KeywordInit ==
    /\ kf_pc = "start"
    /\ like_terms \in { [i \in 1..n |-> i] : n \in 0..MaxTerms }
    /\ haystack \in [FallbackRowIds -> SUBSET Terms]
    /\ kf_results = <<>>
    /\ kf_relevance = [r \in FallbackRowIds |-> 0]

\* "for term in like_terms: if term in haystack: match_hits += 1"
RECURSIVE MatchHits(_, _)
MatchHits(terms, hay) ==
    IF terms = <<>> THEN 0
    ELSE (IF Head(terms) \in hay THEN 1 ELSE 0) + MatchHits(Tail(terms), hay)

\* the whole function: "if not like_terms: return []", the LIKE query (a row
\* is returned when a term occurs in its title or description) and the loop
\* that sets relevance_score on every returned row (db_sync_service's bot
\* has no such function)
_keyword_sql_fallback ==
    /\ kf_pc = "start"
    /\ variant = "root"
    /\ LET rows == Filter([r \in FallbackRowIds |-> r],
                             { r \in FallbackRowIds :
                                 haystack[r] \cap SeqToSet(like_terms) # {} })
       IN /\ kf_results' = rows
          /\ kf_relevance' =
                 [r \in FallbackRowIds |->
                     IF r \in SeqToSet(rows)
                     THEN FallbackRelevance(MatchHits(like_terms, haystack[r]))
                     ELSE 0]
    /\ kf_pc' = "returned"
    /\ UNCHANGED <<like_terms, haystack>>
    /\ UNCHANGED <<guard_vars, batch_vars, query_vars, shared_vars, fb_vars,
                   col_vars, cand_vars, reply_vars, rq_vars>>

KeywordNext == _keyword_sql_fallback

\* ------------------------------------------------------------------------
\* batch_process_events: the fallback decision for any number of matches
\* ------------------------------------------------------------------------
\* the limits a request can carry: none (0), or one of these numbers
Limits == {0, 3, 10, 25}

FallbackInit ==
    /\ fb_pc = "merged"
    /\ fb_matches \in 0..MaxMatches
    /\ fb_limit \in Limits
    /\ fb_ran = FALSE

\* the executor has finished with fb_matches accepted matches: the test
\* "if len(all_matches) < min_expected" of the fallback block
fallback_decision ==
    /\ fb_pc = "merged"
    /\ fb_ran' = FallbackNeeded(variant, fb_matches, fb_limit)
    /\ fb_pc' = "sorting"
    /\ UNCHANGED <<fb_matches, fb_limit>>
    /\ UNCHANGED <<guard_vars, batch_vars, query_vars, shared_vars,
                   col_vars, cand_vars, reply_vars, kf_vars,
                   rq_vars>>

FallbackNext == fallback_decision

\* ------------------------------------------------------------------------
\* process_query and batch_process_events: the candidates, from the SQL
\* prefilter to batches_to_process, for a store of up to NumCandidates
\* active events.  The events are 1..num_active in descending order of
\* volume; scoring holds the events a keyword of the query occurs in (in a
\* column both the SQL prefilter and the keyword prefilter look at).  The
\* request carries no domain filter.
\* ------------------------------------------------------------------------
CandVolume(e) == (NumCandidates + 1 - e) * 100
\* "query.order_by(Event.volume.desc()).all()" over the active events
ActiveCandidates(n) == [i \in 1..n |-> i]
\* prefetched_events=None
NotGiven == [given |-> FALSE, events |-> <<>>]

\* _sql_prefilter_events(keywords, phrases, domain_filter=None, limit=600):
\* "if not has_domain and not has_keywords: return []", else the active
\* events matching a keyword, by volume, limited
_sql_prefilter_events(kw, n, hits) ==
    IF ~kw THEN <<>>
    ELSE Take(Filter(ActiveCandidates(n), hits), SqlPrefilterLimit)

CandInit ==
    /\ cand_pc = "start"
    /\ caller \in {"process_query", "execute_sql_query"}
    /\ kw_given \in BOOLEAN
    /\ num_active \in 0..NumCandidates
    /\ scoring \in SUBSET (1..num_active)
    /\ ~kw_given => scoring = {}
    /\ sql_prefilter = NotGiven
    /\ cand_all_events = <<>>
    /\ cand_for_batches = <<>>
    /\ batches_to_process = <<>>
    /\ cand_result = "none"

cand_frame ==
    UNCHANGED <<guard_vars, batch_vars, query_vars, shared_vars, fb_vars,
                col_vars, reply_vars, kf_vars, rq_vars>>

\* process_query: "sql_prefilter = None" and "if not
\* self._is_simple_metric_query(user_query) and (self._cached_domain_filter
\* or keywords): sql_prefilter = self._sql_prefilter_events(...)"; the
\* escalation of execute_sql_query passes no prefetched_events, and
\* db_sync_service's bot has no SQL prefilter
process_query_prefilter ==
    /\ cand_pc = "start"
    /\ sql_prefilter' =
           IF variant = "root" /\ caller = "process_query" /\ kw_given
           THEN [given |-> TRUE,
                 events |-> _sql_prefilter_events(kw_given, num_active,
                                                  scoring)]
           ELSE NotGiven
    /\ cand_pc' = "called"
    /\ UNCHANGED <<caller, kw_given, num_active, scoring, cand_all_events,
                   cand_for_batches, batches_to_process, cand_result>>
    /\ cand_frame

\* batch_process_events: "if prefetched_events is not None: all_events =
\* prefetched_events", else the active events by volume; "if not
\* all_events: return 'No active events found.'"; then the keyword
\* prefilter (db_sync_service's bot has none)
batch_fetch_and_filter ==
    /\ cand_pc = "called"
    /\ LET fetched == IF sql_prefilter.given THEN sql_prefilter.events
                      ELSE ActiveCandidates(num_active)
           filtered ==
               IF variant = "root"
               THEN PrefilterEvents(fetched, kw_given,
                        [e \in 1..NumCandidates |->
                            IF e \in scoring THEN 2 ELSE 0],
                        [e \in 1..NumCandidates |-> CandVolume(e)],
                        MinResults, BatchSize * MaxBatches)
               ELSE fetched
       IN /\ cand_all_events' = fetched
          /\ IF fetched = <<>>
             THEN /\ cand_result' = "no_active_events"
                  /\ cand_pc' = "done"
                  /\ UNCHANGED cand_for_batches
             ELSE /\ cand_for_batches' =
                         IF filtered # <<>> THEN filtered ELSE fetched
                  /\ cand_pc' = "filtered"
                  /\ UNCHANGED cand_result
    /\ UNCHANGED <<caller, kw_given, num_active, scoring, sql_prefilter,
                   batches_to_process>>
    /\ cand_frame

\* batch_process_events: "Calculate batch sizing" and "Prepare all batches
\* first"; the batches are then submitted to the executor
batch_partition ==
    /\ cand_pc = "filtered"
    /\ batches_to_process' =
           Partition(cand_for_batches,
                     optimal_batch_size(variant, Len(cand_for_batches)))
    /\ cand_result' = "scoring"
    /\ cand_pc' = "done"
    /\ UNCHANGED <<caller, kw_given, num_active, scoring, sql_prefilter,
                   cand_all_events, cand_for_batches>>
    /\ cand_frame

CandNext ==
    \/ process_query_prefilter
    \/ batch_fetch_and_filter
    \/ batch_partition

\* ------------------------------------------------------------------------
\* analyze_query_all_in_one: the required columns of the analysis
\* ------------------------------------------------------------------------
\* the fields between the commas of a REQUIRED_COLUMNS line, stripped; a
\* field can be empty, and a name can come in another case
ColumnFields == {"id", "title", "volume", "ID", ""}
ColumnLines ==
    { [present |-> FALSE, fields |-> <<>>] }
    \cup { [present |-> TRUE, fields |-> f] :
             f \in UNION { [1..n -> ColumnFields] : n \in 0..MaxColumns } }
\* the list required_columns starts from, and the one of the except branch
DefaultColumns(v) ==
    IF v = "root"
    THEN <<"id", "title", "slug", "domain", "section", "subsection",
           "volume", "liquidity">>
    ELSE <<"id", "title">>

\* "[c.strip() for c in cols_str.split(',') if c.strip()]"
RECURSIVE NonEmptyFields(_)
NonEmptyFields(f) ==
    IF f = <<>> THEN <<>>
    ELSE (IF Head(f) # "" THEN <<Head(f)>> ELSE <<>>)
         \o NonEmptyFields(Tail(f))

\* list.insert(i, x): x goes before the element at index i (0-based), at the
\* end when the list is shorter
ListInsert(s, i, x) ==
    SubSeq(s, 1, Min(i, Len(s))) \o <<x>> \o SubSeq(s, Min(i, Len(s)) + 1, Len(s))

\* "if 'id' not in required_columns: required_columns.insert(0, 'id')" and
\* "if 'title' not in required_columns: required_columns.insert(1, 'title')"
EnsureColumns_IdOnly(cols) ==
    IF "id" \notin SeqToSet(cols) THEN ListInsert(cols, 0, "id") ELSE cols
EnsureColumns(cols) ==
    LET with_id == IF "id" \notin SeqToSet(cols)
                   THEN ListInsert(cols, 0, "id") ELSE cols
    IN IF "title" \notin SeqToSet(with_id)
       THEN ListInsert(with_id, 1, "title") ELSE with_id

ColumnsInit ==
    /\ col_pc = "start"
    /\ col_failed \in BOOLEAN
    /\ col_line \in ColumnLines
    /\ col_failed => ~col_line.present
    /\ required_columns = <<>>

\* analyze_query_all_in_one, as far as required_columns goes: the parsed
\* path and the except branch
analyze_required_columns ==
    /\ col_pc = "start"
    /\ required_columns' =
           IF col_failed THEN DefaultColumns(variant)
           ELSE EnsureColumns(IF col_line.present
                              THEN NonEmptyFields(col_line.fields)
                              ELSE DefaultColumns(variant))
    /\ col_pc' = "analyzed"
    /\ UNCHANGED <<col_failed, col_line>>
    /\ UNCHANGED <<guard_vars, batch_vars, query_vars, shared_vars, fb_vars,
                   cand_vars, reply_vars, kf_vars, rq_vars>>

ColumnsNext == analyze_required_columns

\* ------------------------------------------------------------------------
\* Concurrent requests: chat() of intelligent_app.py calls process_query of
\* the module-level chatbot from every request thread.  The requests here
\* take the semantic (batch) strategy.  A value kept in a field of the bot
\* is named by the request that produced it.
\* ------------------------------------------------------------------------
Requests == 1..NumRequests
\* [] / None: a value no request produced
Nobody == 0

SharedInit ==
    /\ last_structured_results = Nobody
    /\ _cached_domain_filter = Nobody
    /\ _cached_perplexity_context = Nobody
    /\ cpc = [t \in Requests |-> "chat"]
    /\ own_domain = [t \in Requests |-> Nobody]
    /\ used_domain = [t \in Requests |-> Nobody]
    /\ used_context = [t \in Requests |-> Nobody]
    /\ reported_records = [t \in Requests |-> Nobody]
    /\ reported_context = [t \in Requests |-> Nobody]

shared_frame == UNCHANGED <<guard_vars, batch_vars, query_vars, prep_vars>>

\* process_query: "self._reset_structured_results()"
_reset_structured_results(t) ==
    /\ cpc[t] = "chat"
    /\ last_structured_results' = Nobody
    /\ cpc' = [cpc EXCEPT ![t] = "reset"]
    /\ UNCHANGED <<_cached_domain_filter, _cached_perplexity_context,
                   own_domain, used_domain, used_context, reported_records,
                   reported_context>>
    /\ shared_frame

\* process_query: "self._cached_perplexity_context = None"
reset_perplexity_context(t) ==
    /\ cpc[t] = "reset"
    /\ _cached_perplexity_context' = Nobody
    /\ cpc' = [cpc EXCEPT ![t] = "analyze"]
    /\ UNCHANGED <<last_structured_results, _cached_domain_filter,
                   own_domain, used_domain, used_context, reported_records,
                   reported_context>>
    /\ shared_frame

\* process_query: the analysis call and
\* "self._cached_domain_filter = analysis['domain_filter']"
store_domain_filter(t, has_domain) ==
    /\ cpc[t] = "analyze"
    /\ LET d == IF has_domain THEN t ELSE Nobody
       IN /\ _cached_domain_filter' = d
          /\ own_domain' = [own_domain EXCEPT ![t] = d]
    /\ cpc' = [cpc EXCEPT ![t] = "ensure"]
    /\ UNCHANGED <<last_structured_results, _cached_perplexity_context,
                   used_domain, used_context, reported_records,
                   reported_context>>
    /\ shared_frame

\* _ensure_perplexity_context: "if self._cached_perplexity_context: return",
\* at "if needs_reasoning:" and again before the call of
\* batch_process_events
_ensure_perplexity_context_test(t) ==
    /\ cpc[t] \in {"ensure", "ensure_again"}
    /\ cpc' = [cpc EXCEPT ![t] =
                  IF _cached_perplexity_context # Nobody
                  THEN (IF cpc[t] = "ensure" THEN "ensure_again" ELSE "call")
                  ELSE (IF cpc[t] = "ensure" THEN "fetch" ELSE "fetch_again")]
    /\ UNCHANGED <<last_structured_results, _cached_domain_filter,
                   _cached_perplexity_context, own_domain, used_domain,
                   used_context, reported_records, reported_context>>
    /\ shared_frame

\* _ensure_perplexity_context: the subqueries and the search have returned;
\* "if context: self._cached_perplexity_context = context"
_ensure_perplexity_context_store(t, found) ==
    /\ cpc[t] \in {"fetch", "fetch_again"}
    /\ _cached_perplexity_context' =
           IF found THEN t ELSE _cached_perplexity_context
    /\ cpc' = [cpc EXCEPT ![t] =
                  IF cpc[t] = "fetch" THEN "ensure_again" ELSE "call"]
    /\ UNCHANGED <<last_structured_results, _cached_domain_filter,
                   own_domain, used_domain, used_context, reported_records,
                   reported_context>>
    /\ shared_frame

\* process_query: "self.batch_process_events(..., domain_filter=
\* self._cached_domain_filter, ..., external_context=
\* self._cached_perplexity_context, ...)"
call_batch_process_events(t) ==
    /\ cpc[t] = "call"
    /\ used_domain' = [used_domain EXCEPT ![t] = _cached_domain_filter]
    /\ used_context' =
           [used_context EXCEPT ![t] = _cached_perplexity_context]
    /\ cpc' = [cpc EXCEPT ![t] = "scoring"]
    /\ UNCHANGED <<last_structured_results, _cached_domain_filter,
                   _cached_perplexity_context, own_domain, reported_records,
                   reported_context>>
    /\ shared_frame

\* _format_final_answer: "self._record_structured_results(
\* structured_results)", then the returns up to chat()
_record_structured_results(t) ==
    /\ cpc[t] = "scoring"
    /\ last_structured_results' = t
    /\ cpc' = [cpc EXCEPT ![t] = "returned"]
    /\ UNCHANGED <<_cached_domain_filter, _cached_perplexity_context,
                   own_domain, used_domain, used_context, reported_records,
                   reported_context>>
    /\ shared_frame

\* chat(): "structured_events = chatbot.get_structured_results()" and
\* "perplexity_context = chatbot.get_perplexity_context_preview()"
get_structured_results(t) ==
    /\ cpc[t] = "returned"
    /\ reported_records' =
           [reported_records EXCEPT ![t] = last_structured_results]
    /\ reported_context' =
           [reported_context EXCEPT ![t] = _cached_perplexity_context]
    /\ cpc' = [cpc EXCEPT ![t] = "done"]
    /\ UNCHANGED <<last_structured_results, _cached_domain_filter,
                   _cached_perplexity_context, own_domain, used_domain,
                   used_context>>
    /\ shared_frame

SharedNext ==
    \E t \in Requests :
        \/ _reset_structured_results(t)
        \/ reset_perplexity_context(t)
        \/ \E has_domain \in BOOLEAN : store_domain_filter(t, has_domain)
        \/ _ensure_perplexity_context_test(t)
        \/ \E found \in BOOLEAN : _ensure_perplexity_context_store(t, found)
        \/ call_batch_process_events(t)
        \/ _record_structured_results(t)
        \/ get_structured_results(t)

\* ------------------------------------------------------------------------
\* process_query: the query text, the store and the SQL text
\* ------------------------------------------------------------------------
\* "display_limit = user_limit if user_limit else DEFAULT_DISPLAY_LIMIT"
\* uses DEFAULT_DISPLAY_LIMIT; "if len(results) < 10" and "rows[:10]":
DirectResultFloor == 10
ComparisonSample == 10
\* The raw queries considered, lower-cased and cut into words.  A substring
\* test of the code ('top' in query) is a test on the words, none of which
\* contains another search token.
Queries ==
    { <<>>,
      <<"top", "volume">>, <<"volume", "top">>, <<"top", "liquidity">>,
      <<"top", "oi">>, <<"by", "liquidity">>, <<"markets", "volume">>,
      <<"markets", "about", "volume">>, <<"inactive", "top", "volume">>,
      <<"trump">> }
InQuery(q, word) == \E i \in 1..Len(q) : q[i] = word
\* 'open interest' in query: the two words side by side
InQueryPhrase(q, w1, w2) ==
    \E i \in 1..(Len(q) - 1) : q[i] = w1 /\ q[i + 1] = w2
\* 'top ' in query (the word followed by a space)
InQueryFollowed(q, word) == \E i \in 1..(Len(q) - 1) : q[i] = word

_detect_metric_field(q) ==
    IF q = <<>> THEN "volume"
    ELSE IF InQuery(q, "liquidity") THEN "liquidity"
    ELSE IF \/ InQueryPhrase(q, "open", "interest")
            \/ InQuery(q, "open-interest")
            \/ InQuery(q, "oi")
         THEN "open_interest"
    ELSE "volume"

_is_simple_metric_query(q) ==
    IF q = <<>> THEN FALSE
    ELSE LET rank_hit ==
                 \E w \in {"top", "highest", "biggest", "largest", "most",
                           "first", "best", "top10", "top-five", "top5"} :
                     InQuery(q, w)
             has_oi_phrase == InQueryPhrase(q, "open", "interest")
             metric_hit ==
                 \/ \E w \in {"volume", "liquidity", "oi"} : InQuery(q, w)
                 \/ has_oi_phrase
             by_construction ==
                 /\ InQuery(q, "by")
                 /\ \/ \E w \in {"volume", "liquidity"} : InQuery(q, w)
                    \/ has_oi_phrase
             simple_market_queries ==
                 /\ \E w \in {"markets", "events"} : InQuery(q, w)
                 /\ ~ \/ \E w \in {"about", "involving", "for", "on"} :
                            InQuery(q, w)
                      \/ InQueryPhrase(q, "related", "to")
         IN \/ rank_hit /\ metric_hit
            \/ by_construction
            \/ simple_market_queries /\ metric_hit

\* "is_simple_data_query" of execute_sql_query
is_simple_data_query_Never(q) == FALSE
is_simple_data_query(q) ==
    \E w \in {"top", "highest", "lowest", "most", "least", "first", "last"} :
        InQueryFollowed(q, w)

\* The events table.  Rows 1..3 are the active records with volumes 500,
\* 300 and 100, row 4 is inactive with volume 400, the rows after them are
\* active with small volumes.  Liquidity does not follow volume.
RowIds == 1..NumRows
SmallStore == 1..4
RowActive(i) == i # 4
RowVolume(i) ==
    IF i = 1 THEN 500 ELSE IF i = 2 THEN 300 ELSE IF i = 3 THEN 100
    ELSE IF i = 4 THEN 400 ELSE 100 - i
RowLiquidity(i) ==
    IF i = 1 THEN 10 ELSE IF i = 2 THEN 30 ELSE IF i = 3 THEN 20
    ELSE IF i = 4 THEN 60 ELSE i
RowMetric(i, field) ==
    IF field = "liquidity" THEN RowLiquidity(i)
    ELSE IF field = "volume" THEN RowVolume(i)
    ELSE 0

\* SQL text as its sequence of tokens.  "DROP" is a statement that is not a
\* SELECT; "FROM?" is a SELECT that SQLite rejects (no such table).
Conditions == {"volume>=300", "liquidity>=50", "is_active=1", "is_active=0"}
Digits == {"0", "1", "2"}
DigitValue(d) == IF d = "0" THEN 0 ELSE IF d = "1" THEN 1 ELSE 2
DigitOf(n) == CHOOSE d \in Digits : DigitValue(d) = n
WhereClauses ==
    { <<>>,
      <<"WHERE", "liquidity>=50">>,
      <<"WHERE", "volume>=300", "OR", "liquidity>=50">>,
      <<"WHERE", "is_active=0">> }
Tails ==
    { <<>>, <<"ORDER BY", "liquidity">>, <<"LIMIT", "1">>,
      <<"ORDER BY", "liquidity", "LIMIT", "2">> }
SelectStatements == { <<"SELECT">> \o w \o t : w \in WhereClauses, t \in Tails }
DropStatement == <<"DROP">>
BadSelect == <<"SELECT", "FROM?">>
\* sql_query = None
NoSql == <<>>

IndexOf(s, tok) ==
    IF \E i \in 1..Len(s) : s[i] = tok
    THEN CHOOSE i \in 1..Len(s) : s[i] = tok /\ \A j \in 1..(i - 1) : s[j] # tok
    ELSE 0
HasToken(s, tok) == IndexOf(s, tok) # 0
Insert(s, pos, toks) == SubSeq(s, 1, pos) \o toks \o SubSeq(s, pos + 1, Len(s))

\* "if not sql_query.strip().upper().startswith('SELECT')"
BeginsWithSelect_Any(s) == TRUE
BeginsWithSelect(s) == s # <<>> /\ Head(s) = "SELECT"

\* "Remove any LIMIT clause": re.sub(r'LIMIT\s+\d+\s*;?', '', rest) from the
\* first LIMIT on
RemoveLimit(s) ==
    LET l == IndexOf(s, "LIMIT")
    IN IF l # 0 /\ l + 1 <= Len(s) /\ s[l + 1] \in Digits
       THEN SubSeq(s, 1, l - 1) \o SubSeq(s, l + 2, Len(s))
       ELSE s

\* 'is_active' in sql_query.lower()
MentionsActivity(s) == HasToken(s, "is_active=1") \/ HasToken(s, "is_active=0")

\* "Enforce active events filter unless explicitly asking for inactive"
InjectActive(s, q) ==
    IF InQuery(q, "inactive") \/ MentionsActivity(s) THEN s
    ELSE IF HasToken(s, "WHERE")
    THEN Insert(s, IndexOf(s, "WHERE"), <<"is_active=1", "AND">>)
    ELSE IF HasToken(s, "ORDER BY")
    THEN Insert(s, IndexOf(s, "ORDER BY") - 1, <<"WHERE", "is_active=1">>)
    ELSE IF HasToken(s, "LIMIT")
    THEN Insert(s, IndexOf(s, "LIMIT") - 1, <<"WHERE", "is_active=1">>)
    ELSE s \o <<"WHERE", "is_active=1">>

\* "Enforce volume sorting if no ORDER BY specified"
InjectOrder(s) ==
    IF HasToken(s, "ORDER BY") THEN s
    ELSE IF HasToken(s, "LIMIT")
    THEN Insert(s, IndexOf(s, "LIMIT") - 1, <<"ORDER BY", "volume">>)
    ELSE s \o <<"ORDER BY", "volume">>

\* the statement execute_sql_query hands to cursor.execute
RewriteSql(s, q) == InjectOrder(InjectActive(RemoveLimit(s), q))

\* the statement execute_comparison_queries hands to cursor.execute
RewriteComparison(s, limit) ==
    IF limit # NoLimit /\ limit # 0
    THEN RemoveLimit(s) \o <<"LIMIT", DigitOf(limit)>>
    ELSE RemoveLimit(s)

\* SQLite: a statement it accepts is SELECT [WHERE cond {AND|OR cond}]
\* [ORDER BY field] [LIMIT n]
OrderFields == {"volume", "liquidity", "open_interest"}
ConditionsOk(c) ==
    /\ Len(c) % 2 = 1
    /\ \A i \in 1..Len(c) :
          IF i % 2 = 1 THEN c[i] \in Conditions ELSE c[i] \in {"AND", "OR"}
WhereTokens(s) ==
    LET w == IndexOf(s, "WHERE")
        o == IndexOf(s, "ORDER BY")
        l == IndexOf(s, "LIMIT")
        last == IF o > w THEN o - 1 ELSE IF l > w THEN l - 1 ELSE Len(s)
    IN IF w = 0 THEN <<>> ELSE SubSeq(s, w + 1, last)
WellFormed(s) ==
    LET w == IndexOf(s, "WHERE")
        o == IndexOf(s, "ORDER BY")
        l == IndexOf(s, "LIMIT")
        second == IF w # 0 THEN w ELSE IF o # 0 THEN o
                  ELSE IF l # 0 THEN l ELSE Len(s) + 1
    IN /\ s # <<>> /\ Head(s) = "SELECT"
       /\ second = 2
       /\ w # 0 => /\ (o = 0 \/ w < o) /\ (l = 0 \/ w < l)
                   /\ ConditionsOk(WhereTokens(s))
       /\ o # 0 => /\ o + 1 <= Len(s)
                   /\ s[o + 1] \in OrderFields
                   /\ IF l # 0 THEN l = o + 2 ELSE Len(s) = o + 1
       /\ l # 0 => /\ Len(s) = l + 1
                   /\ s[l + 1] \in Digits

HoldsFor(cond, i) ==
    IF cond = "volume>=300" THEN RowVolume(i) >= 300
    ELSE IF cond = "liquidity>=50" THEN RowLiquidity(i) >= 50
    ELSE IF cond = "is_active=1" THEN RowActive(i)
    ELSE ~RowActive(i)
\* AND binds tighter than OR: and_acc is the conjunction being read, or_acc
\* the disjunction of the conjunctions read so far
RECURSIVE EvalConditions(_, _, _, _)
EvalConditions(c, i, and_acc, or_acc) ==
    IF c = <<>> THEN or_acc \/ and_acc
    ELSE IF Head(c) = "OR"
    THEN EvalConditions(Tail(c), i, TRUE, or_acc \/ and_acc)
    ELSE IF Head(c) = "AND"
    THEN EvalConditions(Tail(c), i, and_acc, or_acc)
    ELSE EvalConditions(Tail(c), i, and_acc /\ HoldsFor(Head(c), i), or_acc)

RECURSIVE Ascending(_)
Ascending(S) ==
    IF S = {} THEN <<>>
    ELSE LET m == CHOOSE x \in S : \A y \in S : x <= y
         IN <<m>> \o Ascending(S \ {m})

\* cursor.execute + fetchall of a statement SQLite accepts: the ids of the
\* selected rows, in the order of the statement
SelectRows(s, st) ==
    LET o == IndexOf(s, "ORDER BY")
        l == IndexOf(s, "LIMIT")
        hit == { i \in st : EvalConditions(WhereTokens(s), i, TRUE, FALSE) }
        ordered == IF o = 0 THEN Ascending(hit)
                   ELSE SortDescBy(Ascending(hit),
                            [i \in RowIds |-> <<RowMetric(i, s[o + 1]), 0>>])
    IN IF l = 0 THEN ordered ELSE Take(ordered, DigitValue(s[l + 1]))

\* what "cursor.execute(sql); rows = cursor.fetchall(); column_names = [...
\* for desc in cursor.description]" does: raised is TRUE when one of them
\* raises, store is the table afterwards
Execute(s, st) ==
    IF s = DropStatement
    THEN [raised |-> TRUE, rows |-> <<>>, store |-> {}]
    ELSE IF ~WellFormed(s)
    THEN [raised |-> TRUE, rows |-> <<>>, store |-> st]
    ELSE [raised |-> FALSE, rows |-> SelectRows(s, st), store |-> st]

\* ------------------------------------------------------------------------
\* process_query
\* ------------------------------------------------------------------------
\* comparison_queries = None
NoComparison == <<>>
\* The reply of the analysis call, by the lines the parser looks at.  A
\* reply carries a SQL_QUERY line or a COMPARISON_QUERIES line, not both.
StrategyKeywords == {"COMPARISON", "SQL", "BATCH"}
StrategyLines ==
    { [present |-> p, words |-> w] :
        p \in BOOLEAN, w \in SUBSET StrategyKeywords }
SqlLines == {NoSql, DropStatement} \cup SelectStatements
ComparisonStatements ==
    { <<"SELECT">>, <<"SELECT", "LIMIT", "1">>, DropStatement, BadSelect }
Pairs(label) ==
    { [label |-> label, colon |-> FALSE, query |-> <<>>] }
    \cup { [label |-> label, colon |-> TRUE, query |-> s] :
             s \in ComparisonStatements }
ComparisonLines ==
    {NoComparison}
    \cup { <<a>> : a \in Pairs("A") }
    \cup { <<a, b>> : a \in Pairs("A"), b \in Pairs("B") }
LimitLines == {"absent", "ALL"} \cup Digits
DomainLines == {"absent", "ALL", "3"}

\* the branch "elif line.startswith('STRATEGY:')"; "batch" is the value set
\* before the loop
ParseStrategy(line) ==
    IF ~line.present THEN "batch"
    ELSE IF "COMPARISON" \in line.words THEN "comparison"
    ELSE IF "SQL" \in line.words THEN "sql"
    ELSE "batch"
\* "if limit_str != 'ALL' and limit_str.isdigit()"
ParseLimit(line) == IF line \in Digits THEN DigitValue(line) ELSE NoLimit
\* the DOMAIN_FILTER branch (the empty set stands for None)
ParseDomains(line) == IF line = "3" THEN {3} ELSE {}

QueryInit ==
    /\ user_query \in Queries
    /\ store \in {SmallStore, RowIds}
    /\ pre_store = store
    /\ proposed_sql = NoSql
    /\ qpc = "start"
    /\ call_failed = FALSE
    /\ strategy_parsed = FALSE
    /\ strategy = "none"
    /\ completion_strategy = "none"
    /\ sql_query = NoSql
    /\ comparison_queries = NoComparison
    /\ domain_filter = {}
    /\ q_user_limit = NoLimit
    /\ executed = <<>>
    /\ read_sections = 0
    /\ results = <<>>
    /\ display_results = <<>>
    /\ total_results = 0
    /\ category_queries = <<>>
    /\ parsed_pairs = <<>>
    /\ results_by_category = {}
    /\ comparison_data = {}
    /\ outcome = "none"

\* nothing but the request moves while a query is processed
others_unchanged ==
    UNCHANGED <<guard_vars, batch_vars, prep_vars, shared_vars>>

\* what the analysis call can do: raise, or reply with these lines
AnalysisReplies ==
    { [fails |-> TRUE, sline |-> [present |-> FALSE, words |-> {}],
       sql |-> NoSql, cmp |-> NoComparison, dline |-> "absent",
       lline |-> "absent"] }
    \cup { [fails |-> FALSE, sline |-> sl, sql |-> s, cmp |-> NoComparison,
             dline |-> d, lline |-> l] :
             sl \in StrategyLines, s \in SqlLines, d \in DomainLines,
             l \in LimitLines }
    \cup { [fails |-> FALSE, sline |-> sl, sql |-> NoSql, cmp |-> c,
             dline |-> d, lline |-> l] :
             sl \in StrategyLines, c \in ComparisonLines,
             d \in DomainLines, l \in LimitLines }
\* the call is made once, at the start of process_query
RepliesAt(pc) == IF pc = "start" THEN AnalysisReplies ELSE {}

\* analyze_query_all_in_one: the completion call raises (the except branch)
\* or its reply is parsed line by line
analyze_query_all_in_one(reply) ==
    /\ qpc = "start"
    /\ call_failed' = reply.fails
    /\ strategy_parsed' =
           (~reply.fails /\ reply.sline.present /\ reply.sline.words # {})
    /\ strategy' = IF reply.fails THEN "batch" ELSE ParseStrategy(reply.sline)
    /\ completion_strategy' = strategy'
    /\ sql_query' = IF reply.fails THEN NoSql ELSE reply.sql
    /\ comparison_queries' = IF reply.fails THEN NoComparison ELSE reply.cmp
    /\ domain_filter' = IF reply.fails THEN {} ELSE ParseDomains(reply.dline)
    /\ q_user_limit' = IF reply.fails THEN NoLimit ELSE ParseLimit(reply.lline)
    /\ proposed_sql' = sql_query'
    /\ qpc' = "analyzed"
    /\ UNCHANGED <<user_query, pre_store, store, executed, read_sections, results,
                   display_results, total_results, category_queries,
                   parsed_pairs, results_by_category, comparison_data,
                   outcome>>
    /\ others_unchanged

\* "Override strategy for simple ranking queries" (db_sync_service's bot has
\* no such step)
OverrideStrategy_Never(v, s, q) == s
OverrideStrategy(v, s, q) ==
    IF v = "root" /\ s # "comparison" /\ _is_simple_metric_query(q)
    THEN "sql" ELSE s

\* "if strategy == 'sql':" of process_query: the executor a SCAN request is
\* handed to.  The root bot runs the expression only for a simple metric
\* query ("For complex SQL queries, use prefiltering and batch processing");
\* db_sync_service's bot always runs it.
SqlRoute_AlwaysScan(v, q) == "execute_sql_query"
SqlRoute(v, q) ==
    IF v = "mcp" \/ _is_simple_metric_query(q) THEN "execute_sql_query"
    ELSE "batch_process_events"

\* process_query from the override to the call of the strategy's executor;
\* batch_process_events is the scorer modelled by BatchNext
process_query_dispatch ==
    /\ qpc = "analyzed"
    /\ strategy' = OverrideStrategy(variant, strategy, user_query)
    /\ IF strategy' = "sql"
       THEN IF SqlRoute(variant, user_query) = "execute_sql_query"
            THEN qpc' = "sql" /\ UNCHANGED outcome
            ELSE qpc' = "done" /\ outcome' = "batch_scorer"
       ELSE IF strategy' = "comparison"
       THEN qpc' = "comparison" /\ UNCHANGED outcome
       ELSE qpc' = "done" /\ outcome' = "batch_scorer"
    /\ UNCHANGED <<user_query, pre_store, proposed_sql, store, call_failed, strategy_parsed,
                   completion_strategy, sql_query, comparison_queries,
                   domain_filter, q_user_limit, executed, read_sections,
                   results, display_results, total_results,
                   category_queries, parsed_pairs, results_by_category,
                   comparison_data>>
    /\ others_unchanged

\* execute_sql_query up to the read section: the safety check and the
\* rewriting of the statement.  sql_query = None raises AttributeError, which
\* the except branch turns into the error outcome.
execute_sql_query_rewrite ==
    /\ qpc = "sql"
    /\ IF sql_query = NoSql
       THEN qpc' = "done" /\ outcome' = "sql_error" /\ UNCHANGED sql_query
       ELSE IF ~BeginsWithSelect(sql_query)
       THEN qpc' = "done" /\ outcome' = "sql_rejected" /\ UNCHANGED sql_query
       ELSE /\ sql_query' = RewriteSql(sql_query, user_query)
            /\ qpc' = "scan"
            /\ UNCHANGED outcome
    /\ UNCHANGED <<user_query, pre_store, proposed_sql, store, call_failed, strategy_parsed, strategy,
                   completion_strategy, comparison_queries, domain_filter,
                   q_user_limit, executed, read_sections, results,
                   display_results, total_results, category_queries,
                   parsed_pairs, results_by_category, comparison_data>>
    /\ others_unchanged

\* "with ReadTracker(): conn = sqlite3.connect(...); cursor.execute(...)":
\* connected is FALSE when the connection cannot be opened
execute_sql_query_scan(connected) ==
    /\ qpc = "scan"
    /\ read_sections' = read_sections + 1
    /\ LET r == Execute(sql_query, store)
       IN IF connected
          THEN /\ executed' = Append(executed, sql_query)
               /\ store' = r.store
               /\ IF r.raised
                  THEN /\ qpc' = "done" /\ outcome' = "sql_error"
                       /\ UNCHANGED results
                  ELSE /\ results' = r.rows
                       /\ qpc' = "format"
                       /\ UNCHANGED outcome
          ELSE /\ qpc' = "done" /\ outcome' = "sql_error"
               /\ UNCHANGED <<executed, store, results>>
    /\ UNCHANGED <<user_query, pre_store, proposed_sql, call_failed, strategy_parsed, strategy,
                   completion_strategy, sql_query, comparison_queries,
                   domain_filter, q_user_limit, display_results,
                   total_results, category_queries, parsed_pairs,
                   results_by_category, comparison_data>>
    /\ others_unchanged

\* execute_sql_query after the read section: fewer than 10 rows go to the
\* scorer unless the query is a simple data query with some rows; otherwise
\* the rows are returned directly
execute_sql_query_format ==
    /\ qpc = "format"
    /\ IF /\ Len(results) < DirectResultFloor
          /\ ~(is_simple_data_query(user_query) /\ Len(results) > 0)
       THEN /\ outcome' = "batch_scorer"
            /\ UNCHANGED <<display_results, total_results>>
       ELSE /\ total_results' = Len(results)
            /\ display_results' = Take(results, DisplayLimit(q_user_limit))
            /\ outcome' = "sql_direct"
    /\ qpc' = "done"
    /\ UNCHANGED <<user_query, pre_store, proposed_sql, store, call_failed, strategy_parsed, strategy,
                   completion_strategy, sql_query, comparison_queries,
                   domain_filter, q_user_limit, executed, read_sections,
                   results, category_queries, parsed_pairs,
                   results_by_category, comparison_data>>
    /\ others_unchanged

\* execute_comparison_queries: "Parse format: CATEGORY1:query1|..."
RECURSIVE ParsePairs(_)
ParsePairs(line) ==
    IF line = <<>> THEN <<>>
    ELSE (IF Head(line).colon THEN <<Head(line)>> ELSE <<>>)
         \o ParsePairs(Tail(line))
execute_comparison_parse ==
    /\ qpc = "comparison"
    /\ LET pairs == ParsePairs(comparison_queries)
       IN IF pairs = <<>>
          THEN /\ qpc' = "done" /\ outcome' = "comparison_error"
               /\ UNCHANGED <<category_queries, parsed_pairs>>
          ELSE /\ category_queries' = pairs
               /\ parsed_pairs' = pairs
               /\ qpc' = "compare"
               /\ UNCHANGED outcome
    /\ UNCHANGED <<user_query, pre_store, proposed_sql, store, call_failed, strategy_parsed, strategy,
                   completion_strategy, sql_query, comparison_queries,
                   domain_filter, q_user_limit, executed, read_sections,
                   results, display_results, total_results,
                   results_by_category, comparison_data>>
    /\ others_unchanged

\* one turn of "for category, sql_query in category_queries"; an exception
\* of the turn leaves the loop for the except branch of the function
execute_comparison_scan(connected) ==
    /\ qpc = "compare"
    /\ category_queries # <<>>
    /\ read_sections' = read_sections + 1
    /\ LET pair == Head(category_queries)
           stmt == RewriteComparison(pair.query, q_user_limit)
           r == Execute(stmt, store)
       IN IF connected
          THEN /\ executed' = Append(executed, stmt)
               /\ store' = r.store
               /\ IF r.raised
                  THEN /\ qpc' = "done" /\ outcome' = "comparison_error"
                       /\ UNCHANGED <<category_queries, results_by_category>>
                  ELSE /\ results_by_category' =
                            { c \in results_by_category :
                                c.label # pair.label }
                            \cup {[label |-> pair.label, rows |-> r.rows]}
                       /\ category_queries' = Tail(category_queries)
                       /\ UNCHANGED <<qpc, outcome>>
          ELSE /\ qpc' = "done" /\ outcome' = "comparison_error"
               /\ UNCHANGED <<executed, store, category_queries,
                              results_by_category>>
    /\ UNCHANGED <<user_query, pre_store, proposed_sql, call_failed, strategy_parsed, strategy,
                   completion_strategy, sql_query, comparison_queries,
                   domain_filter, q_user_limit, results, display_results,
                   total_results, parsed_pairs, comparison_data>>
    /\ others_unchanged

\* after the loop: "rows[:10]" of every category go to the formatting call,
\* whose failure is the error outcome
execute_comparison_format(call_ok) ==
    /\ qpc = "compare"
    /\ category_queries = <<>>
    /\ comparison_data' =
           { [label |-> c.label, rows |-> Take(c.rows, ComparisonSample)] :
               c \in results_by_category }
    /\ outcome' = IF call_ok THEN "comparison" ELSE "comparison_error"
    /\ qpc' = "done"
    /\ UNCHANGED <<user_query, pre_store, proposed_sql, store, call_failed, strategy_parsed, strategy,
                   completion_strategy, sql_query, comparison_queries,
                   domain_filter, q_user_limit, executed, read_sections,
                   results, display_results, total_results,
                   category_queries, parsed_pairs, results_by_category>>
    /\ others_unchanged

QueryNext ==
    \/ \E reply \in RepliesAt(qpc) : analyze_query_all_in_one(reply)
    \/ process_query_dispatch
    \/ execute_sql_query_rewrite
    \/ \E connected \in BOOLEAN : execute_sql_query_scan(connected)
    \/ execute_sql_query_format
    \/ execute_comparison_parse
    \/ \E connected \in BOOLEAN : execute_comparison_scan(connected)
    \/ \E call_ok \in BOOLEAN : execute_comparison_format(call_ok)

\* ------------------------------------------------------------------------
\* process_query: the blocking calls of one request (completion calls and
\* scans of READ_DB), its ReadTracker sections, and what it reports
\* ------------------------------------------------------------------------
\* the events a scan can return, by volume
RqLists == {<<>>, <<1>>, <<1, 2>>}
\* the number of rows the scan of execute_sql_query can return
RqRowCounts == {0, DirectResultFloor - 1, DirectResultFloor}
RqStrategies == {"sql", "batch", "comparison", "unknown"}
\* the pairs parsed from COMPARISON_QUERIES
RqPairCounts == 0..2
CallOutcomes == {"match", "none", "error", "rate"}
NoText == [kind |-> "none", listed |-> <<>>]
Text(kind, listed) == [kind |-> kind, listed |-> listed]

RequestInit ==
    /\ rq = [pc |-> "start", sec |-> "out", cached |-> FALSE,
             via |-> "none", prefilter |-> NotGiven, all_events |-> <<>>,
             calls |-> <<>>, matches |-> <<>>, pairs |-> 0]
    /\ rq_in \in [strategy : RqStrategies, simple : BOOLEAN,
                  keywords : BOOLEAN, domain : BOOLEAN, ranking : BOOLEAN,
                  select : BOOLEAN, pairs : RqPairCounts]
    /\ rq_in.strategy # "comparison" => rq_in.pairs = 0
    /\ in_read = 0
    /\ scanning = FALSE
    /\ open_calls = 0
    /\ rq_structured \in RqLists
    /\ rq_text = NoText

rq_frame ==
    UNCHANGED <<guard_vars, batch_vars, query_vars, shared_vars, fb_vars,
                col_vars, cand_vars, reply_vars, kf_vars>>

\* "if strategy_normalized != 'comparison' and
\* self._is_simple_metric_query(user_query): strategy = 'sql'"
FinalStrategy ==
    IF rq_in.strategy # "comparison" /\ rq_in.simple THEN "sql"
    ELSE rq_in.strategy
\* needs_reasoning
NeedsReasoning == FinalStrategy \in {"batch", "comparison"}
\* where batch_process_events returns to: process_query goes on after the
\* call, execute_sql_query returns its result as it is
ReturnPc == IF rq.via = "process_query" THEN "post" ELSE "done"

\* process_query up to the analysis: "self._reset_structured_results()"
rq_process_query_start ==
    /\ rq.pc = "start"
    /\ variant = "root"
    /\ rq_structured' = <<>>
    /\ rq' = [rq EXCEPT !.pc = "analysis"]
    /\ UNCHANGED <<rq_in, in_read, scanning, open_calls, rq_text>>
    /\ rq_frame

\* the places where the request thread itself issues a completion call:
\* _call_gemini of analyze_query_all_in_one, generate_content of
\* _generate_perplexity_subqueries, _call_gemini of
\* execute_comparison_queries
CallSites == {"analysis", "context", "context_esc", "context_late",
              "cmp_format"}
rq_call_gemini ==
    /\ rq.pc \in CallSites
    /\ open_calls = 0
    /\ open_calls' = 1
    /\ UNCHANGED <<rq, rq_in, in_read, scanning, rq_structured, rq_text>>
    /\ rq_frame

\* analyze_query_all_in_one returns (a failed call gives its default
\* analysis); "if needs_reasoning: self._ensure_perplexity_context(...)"
rq_analysis_returns ==
    /\ rq.pc = "analysis" /\ open_calls = 1
    /\ open_calls' = 0
    /\ rq' = [rq EXCEPT !.pc = IF NeedsReasoning THEN "context"
                                ELSE "prefilter"]
    /\ UNCHANGED <<rq_in, in_read, scanning, rq_structured, rq_text>>
    /\ rq_frame

\* _ensure_perplexity_context returns, with a context or without
rq_context_returns(found) ==
    /\ rq.pc \in {"context", "context_esc", "context_late"}
    /\ open_calls = 1
    /\ open_calls' = 0
    /\ rq' = [rq EXCEPT
                !.cached = found,
                !.pc = IF rq.pc = "context" THEN "prefilter"
                       ELSE IF rq.pc = "context_esc" THEN "fetch"
                       ELSE IF FinalStrategy = "comparison"
                            THEN "comparison" ELSE "fetch"]
    /\ UNCHANGED <<rq_in, in_read, scanning, rq_structured, rq_text>>
    /\ rq_frame

\* "if not self._is_simple_metric_query(user_query) and
\* (self._cached_domain_filter or keywords): sql_prefilter = ..."
rq_prefilter_decision ==
    /\ rq.pc = "prefilter"
    /\ rq' = [rq EXCEPT !.pc =
                IF ~rq_in.simple /\ (rq_in.domain \/ rq_in.keywords)
                THEN "prefilter_scan" ELSE "dispatch"]
    /\ UNCHANGED <<rq_in, in_read, scanning, open_calls, rq_structured,
                   rq_text>>
    /\ rq_frame

\* "if strategy == 'sql': ... elif strategy == 'comparison': ... elif
\* strategy == 'batch': ... else: return 'Error: Unknown strategy'", and the
\* SELECT test of execute_sql_query
rq_dispatch ==
    /\ rq.pc = "dispatch"
    /\ LET late == IF NeedsReasoning /\ ~rq.cached THEN "context_late"
                   ELSE IF FinalStrategy = "comparison" THEN "comparison"
                   ELSE "fetch"
       IN CASE FinalStrategy = "sql" /\ rq_in.simple /\ rq_in.select ->
                 /\ rq' = [rq EXCEPT !.pc = "sql_scan"]
                 /\ UNCHANGED rq_text
            [] FinalStrategy = "sql" /\ rq_in.simple /\ ~rq_in.select ->
                 /\ rq' = [rq EXCEPT !.pc = "done"]
                 /\ rq_text' = Text("error", <<>>)
            [] FinalStrategy = "sql" /\ ~rq_in.simple ->
                 /\ rq' = [rq EXCEPT !.pc = late, !.via = "process_query"]
                 /\ UNCHANGED rq_text
            [] FinalStrategy = "batch" ->
                 /\ rq' = [rq EXCEPT !.pc = late, !.via = "process_query"]
                 /\ UNCHANGED rq_text
            [] FinalStrategy = "comparison" ->
                 /\ rq' = [rq EXCEPT !.pc = late]
                 /\ UNCHANGED rq_text
            [] OTHER ->
                 /\ rq' = [rq EXCEPT !.pc = "done"]
                 /\ rq_text' = Text("error", <<>>)
    /\ UNCHANGED <<rq_in, in_read, scanning, open_calls, rq_structured>>
    /\ rq_frame

\* the "with ReadTracker():" blocks of _sql_prefilter_events,
\* execute_sql_query, batch_process_events, _keyword_sql_fallback and
\* execute_comparison_queries
ScanSites == {"prefilter_scan", "sql_scan", "fetch_scan", "fallback_scan",
              "cmp_scan"}
\* ReadTracker: "active_reads += 1" on entry, "active_reads -= 1" on exit
\* (the share of this request)
EnterRead(k) == k + 1
ExitRead_Kept(k) == k
ExitRead(k) == k - 1
\* ReadTracker.__enter__
rq_ReadTracker_enter ==
    /\ rq.pc \in ScanSites /\ rq.sec = "out"
    /\ in_read' = EnterRead(in_read)
    /\ rq' = [rq EXCEPT !.sec = "in"]
    /\ UNCHANGED <<rq_in, scanning, open_calls, rq_structured, rq_text>>
    /\ rq_frame
\* the body of the block: the query is sent to READ_DB
rq_scan ==
    /\ rq.sec = "in"
    /\ scanning' = TRUE
    /\ rq' = [rq EXCEPT !.sec = "scan"]
    /\ UNCHANGED <<rq_in, in_read, open_calls, rq_structured, rq_text>>
    /\ rq_frame
\* the scan returns its rows, or raises
rq_scan_returns(ok) ==
    /\ rq.sec = "scan"
    /\ scanning' = FALSE
    /\ rq' = [rq EXCEPT !.sec = IF ok THEN "returned" ELSE "raised"]
    /\ UNCHANGED <<rq_in, in_read, open_calls, rq_structured, rq_text>>
    /\ rq_frame

\* the batches of batch_process_events: one completion call per batch, one
\* event per batch
QueuedCalls(events) == [b \in 1..Len(events) |-> "queued"]
\* "if not all_events: self._record_structured_results([]); return 'No
\* active events found.'", else the batches are submitted
AfterFetch(events) ==
    IF events = <<>>
    THEN /\ rq' = [rq EXCEPT !.sec = "out", !.all_events = events,
                             !.pc = ReturnPc]
         /\ rq_structured' = <<>>
         /\ rq_text' = Text("no_results", <<>>)
    ELSE /\ rq' = [rq EXCEPT !.sec = "out", !.all_events = events,
                             !.calls = QueuedCalls(events),
                             !.pc = "batches"]
         /\ UNCHANGED <<rq_structured, rq_text>>
\* an exception inside a function with "except Exception": the structured
\* results are emptied and an error text is returned
Failed(pc) ==
    /\ rq' = [rq EXCEPT !.sec = "out", !.pc = pc]
    /\ rq_structured' = <<>>
    /\ rq_text' = Text("error", <<>>)

\* ReadTracker.__exit__, and what the function does with the rows (rows:
\* the events returned, n: the number of rows of the SCAN expression)
rq_ReadTracker_exit(rows, n) ==
    /\ rq.sec \in {"returned", "raised"}
    /\ in_read' = ExitRead(in_read)
    /\ CASE rq.sec = "raised" ->
              Failed(IF rq.pc \in {"fetch_scan", "fallback_scan"}
                     THEN ReturnPc ELSE "done")
         [] rq.sec = "returned" /\ rq.pc = "prefilter_scan" ->
              /\ rq' = [rq EXCEPT !.sec = "out", !.pc = "dispatch",
                           !.prefilter = [given |-> TRUE, events |-> rows]]
              /\ UNCHANGED <<rq_structured, rq_text>>
         [] rq.sec = "returned" /\ rq.pc = "sql_scan" ->
              IF n < DirectResultFloor /\ ~(rq_in.ranking /\ n > 0)
              THEN /\ rq' = [rq EXCEPT !.sec = "out",
                               !.via = "execute_sql_query",
                               !.pc = IF rq.cached THEN "fetch"
                                      ELSE "context_esc"]
                   /\ UNCHANGED <<rq_structured, rq_text>>
              ELSE /\ rq' = [rq EXCEPT !.sec = "out", !.pc = "done"]
                   /\ rq_structured' =
                          [i \in 1..Min(n, DEFAULT_DISPLAY_LIMIT) |-> i]
                   /\ rq_text' = Text("listing", rq_structured')
         [] rq.sec = "returned" /\ rq.pc = "fetch_scan" -> AfterFetch(rows)
         [] rq.sec = "returned" /\ rq.pc = "fallback_scan" ->
              /\ rq' = [rq EXCEPT
                          !.sec = "out", !.pc = "format",
                          !.matches = AddMatches(
                              [m |-> rq.matches, s |-> SeqToSet(rq.matches)],
                              rows).m]
              /\ UNCHANGED <<rq_structured, rq_text>>
         [] rq.sec = "returned" /\ rq.pc = "cmp_scan" ->
              /\ rq' = [rq EXCEPT !.sec = "out", !.pairs = rq.pairs - 1,
                           !.pc = IF rq.pairs > 1 THEN "cmp_scan"
                                  ELSE "cmp_format"]
              /\ UNCHANGED <<rq_structured, rq_text>>
    /\ UNCHANGED <<rq_in, scanning, open_calls>>
    /\ rq_frame

\* batch_process_events: "if prefetched_events is not None: all_events =
\* prefetched_events", else the fetch inside a ReadTracker block; the
\* escalation of execute_sql_query passes no prefetched_events
rq_batch_process_events ==
    /\ rq.pc = "fetch"
    /\ IF rq.via = "process_query" /\ rq.prefilter.given
       THEN AfterFetch(rq.prefilter.events)
       ELSE /\ rq' = [rq EXCEPT !.pc = "fetch_scan"]
            /\ UNCHANGED <<rq_structured, rq_text>>
    /\ UNCHANGED <<rq_in, in_read, scanning, open_calls>>
    /\ rq_frame

\* a worker of the executor issues the completion call of batch b
rq_worker_call(b) ==
    /\ rq.pc = "batches"
    /\ b \in 1..Len(rq.calls) /\ rq.calls[b] = "queued"
    /\ open_calls' = open_calls + 1
    /\ rq' = [rq EXCEPT !.calls[b] = "open"]
    /\ UNCHANGED <<rq_in, in_read, scanning, rq_structured, rq_text>>
    /\ rq_frame
\* the call of batch b returns a match, NONE, or raises (with or without a
\* rate-limit signature)
rq_worker_returns(b, res) ==
    /\ rq.pc = "batches"
    /\ b \in 1..Len(rq.calls) /\ rq.calls[b] = "open"
    /\ open_calls' = open_calls - 1
    /\ rq' = [rq EXCEPT !.calls[b] = res]
    /\ UNCHANGED <<rq_in, in_read, scanning, rq_structured, rq_text>>
    /\ rq_frame

\* the as_completed loop, once the executor has finished: the rate-limit
\* return, or the merge of the matches
rq_merge ==
    /\ rq.pc = "batches"
    /\ \A b \in 1..Len(rq.calls) : rq.calls[b] \in CallOutcomes
    /\ IF \E b \in 1..Len(rq.calls) : rq.calls[b] = "rate"
       THEN /\ rq' = [rq EXCEPT !.pc = ReturnPc]
            /\ rq_structured' = <<>>
            /\ rq_text' = Text("rate_limited", <<>>)
       ELSE /\ rq' = [rq EXCEPT
                        !.pc = "fallback",
                        !.matches = Filter(rq.all_events,
                            { rq.all_events[b] : b \in
                                { k \in 1..Len(rq.calls) :
                                    rq.calls[k] = "match" } })]
            /\ UNCHANGED <<rq_structured, rq_text>>
    /\ UNCHANGED <<rq_in, in_read, scanning, open_calls>>
    /\ rq_frame

\* "if len(all_matches) < min_expected" (at most two matches here) and "if
\* not keywords and not phrases: return []" of _keyword_sql_fallback
rq_fallback_decision ==
    /\ rq.pc = "fallback"
    /\ rq' = [rq EXCEPT !.pc = IF rq_in.keywords THEN "fallback_scan"
                                ELSE "format"]
    /\ UNCHANGED <<rq_in, in_read, scanning, open_calls, rq_structured,
                   rq_text>>
    /\ rq_frame

\* the sort (which raises on a NULL volume in a tie), the returns without
\* matches, and _format_final_answer
rq_sort_and_format(raises) ==
    /\ rq.pc = "format"
    /\ raises => Len(rq.matches) >= 2
    /\ rq' = [rq EXCEPT !.pc = ReturnPc]
    /\ IF raises \/ rq.matches = <<>>
       THEN /\ rq_structured' = <<>>
            /\ rq_text' =
                   IF raises \/ \E b \in 1..Len(rq.calls) :
                                    rq.calls[b] = "error"
                   THEN Text("error", <<>>)
                   ELSE Text("no_results", <<>>)
       ELSE /\ rq_structured' = Take(rq.matches, DEFAULT_DISPLAY_LIMIT)
            /\ rq_text' = Text("listing", rq_structured')
    /\ UNCHANGED <<rq_in, in_read, scanning, open_calls>>
    /\ rq_frame

\* process_query after batch_process_events has returned: "if not
\* self.last_structured_results and sql_prefilter: ...
\* self._record_structured_results(fallback_structured)"; "return result"
rq_StructuredAfterBatch(structured, prefilter) ==
    IF structured = <<>> /\ prefilter.given /\ prefilter.events # <<>>
    THEN Take(prefilter.events, DEFAULT_DISPLAY_LIMIT)
    ELSE structured
rq_after_batch ==
    /\ rq.pc = "post"
    /\ rq_structured' = rq_StructuredAfterBatch(rq_structured, rq.prefilter)
    /\ rq' = [rq EXCEPT !.pc = "done"]
    /\ UNCHANGED <<rq_in, in_read, scanning, open_calls, rq_text>>
    /\ rq_frame

\* execute_comparison_queries up to the first scan:
\* "self._record_structured_results([])" and the parse of the pairs
rq_execute_comparison_queries ==
    /\ rq.pc = "comparison"
    /\ rq_structured' = <<>>
    /\ IF rq_in.pairs = 0
       THEN /\ rq' = [rq EXCEPT !.pc = "done"]
            /\ rq_text' = Text("error", <<>>)
       ELSE /\ rq' = [rq EXCEPT !.pc = "cmp_scan", !.pairs = rq_in.pairs]
            /\ UNCHANGED rq_text
    /\ UNCHANGED <<rq_in, in_read, scanning, open_calls>>
    /\ rq_frame
\* "return self._call_gemini(formatting_prompt, ...)", or its exception
rq_comparison_returns(ok) ==
    /\ rq.pc = "cmp_format" /\ open_calls = 1
    /\ open_calls' = 0
    /\ rq' = [rq EXCEPT !.pc = "done"]
    /\ rq_text' = IF ok THEN Text("comparison", <<>>)
                  ELSE Text("error", <<>>)
    /\ UNCHANGED <<rq_in, in_read, scanning, rq_structured>>
    /\ rq_frame

RequestNext ==
    \/ rq_process_query_start
    \/ rq_call_gemini
    \/ rq_analysis_returns
    \/ \E found \in BOOLEAN : rq_context_returns(found)
    \/ rq_prefilter_decision
    \/ rq_dispatch
    \/ rq_ReadTracker_enter
    \/ rq_scan
    \/ \E ok \in BOOLEAN : rq_scan_returns(ok)
    \/ \E rows \in RqLists, n \in RqRowCounts : rq_ReadTracker_exit(rows, n)
    \/ rq_batch_process_events
    \/ \E b \in 1..2 : rq_worker_call(b)
    \/ \E b \in 1..2, res \in CallOutcomes : rq_worker_returns(b, res)
    \/ rq_merge
    \/ rq_fallback_decision
    \/ \E raises \in BOOLEAN : rq_sort_and_format(raises)
    \/ rq_after_batch
    \/ rq_execute_comparison_queries
    \/ \E ok \in BOOLEAN : rq_comparison_returns(ok)

\* ------------------------------------------------------------------------
\* Specifications
\* ------------------------------------------------------------------------
\* no request is being processed
QueryIdle ==
    /\ QueryInit
    /\ user_query = <<>> /\ store = SmallStore

\* no list of batch_process_events is being measured
FallbackIdle ==
    /\ FallbackInit
    /\ fb_matches = 0 /\ fb_limit = 0
ColumnsIdle ==
    /\ ColumnsInit
    /\ ~col_failed /\ ~col_line.present
CandIdle ==
    /\ CandInit
    /\ caller = "process_query" /\ ~kw_given /\ num_active = 0
ReplyIdle ==
    /\ ReplyInit
    /\ 1 \in SeqToSet(reply_batch) /\ reply_text.none
    /\ prior_matches = <<>>
KeywordIdle ==
    /\ KeywordInit
    /\ like_terms = <<>> /\ haystack = [r \in FallbackRowIds |-> {}]
RequestIdle ==
    /\ RequestInit
    /\ rq_in = [strategy |-> "unknown", simple |-> FALSE,
                keywords |-> FALSE, domain |-> FALSE, ranking |-> FALSE,
                select |-> FALSE, pairs |-> 0]
    /\ rq_structured = <<>>
PrepIdle ==
    /\ FallbackIdle /\ ColumnsIdle /\ CandIdle /\ ReplyIdle /\ KeywordIdle
    /\ RequestIdle

\* no request thread is in chat()
SharedIdle == SharedInit

\* the guard while no query is being scored
BatchIdle ==
    /\ BatchInit
    /\ has_keywords = FALSE /\ use_prefetch = FALSE /\ user_limit = 0
    /\ null_volume = {}

\* the scorer with the sync service at rest
GuardIdle ==
    /\ GuardInit
    /\ write_db = Absent /\ read_db = Absent

Init == GuardInit /\ BatchIdle /\ QueryIdle /\ PrepIdle /\ SharedIdle
Next == GuardNext
\* readers, the sync service and the writer process
Spec == Init /\ [][Next]_vars

BatchSpecInit == GuardIdle /\ BatchInit /\ QueryIdle /\ PrepIdle /\ SharedIdle
\* one call of batch_process_events
BatchSpec == BatchSpecInit /\ [][BatchNext]_vars

QuerySpecInit == GuardIdle /\ BatchIdle /\ QueryInit /\ PrepIdle /\ SharedIdle
\* one call of process_query
QuerySpec == QuerySpecInit /\ [][QueryNext]_vars

FallbackSpecInit ==
    /\ GuardIdle /\ BatchIdle /\ QueryIdle /\ SharedIdle
    /\ FallbackInit /\ ColumnsIdle /\ CandIdle /\ ReplyIdle
    /\ KeywordIdle /\ RequestIdle
\* the fallback decision of batch_process_events
FallbackSpec == FallbackSpecInit /\ [][FallbackNext]_vars

ColumnsSpecInit ==
    /\ GuardIdle /\ BatchIdle /\ QueryIdle /\ SharedIdle
    /\ FallbackIdle /\ ColumnsInit /\ CandIdle /\ ReplyIdle
    /\ KeywordIdle /\ RequestIdle
\* the required columns of one analysis
ColumnsSpec == ColumnsSpecInit /\ [][ColumnsNext]_vars

CandSpecInit ==
    /\ GuardIdle /\ BatchIdle /\ QueryIdle /\ SharedIdle
    /\ FallbackIdle /\ ColumnsIdle /\ CandInit /\ ReplyIdle
    /\ KeywordIdle /\ RequestIdle
\* the preparation of the candidates of one request
CandSpec == CandSpecInit /\ [][CandNext]_vars

ReplySpecInit ==
    /\ GuardIdle /\ BatchIdle /\ QueryIdle /\ SharedIdle
    /\ FallbackIdle /\ ColumnsIdle /\ CandIdle /\ ReplyInit
    /\ KeywordIdle /\ RequestIdle
\* one batch reply, parsed and merged
ReplySpec == ReplySpecInit /\ [][ReplyNext]_vars

KeywordSpecInit ==
    /\ GuardIdle /\ BatchIdle /\ QueryIdle /\ SharedIdle
    /\ FallbackIdle /\ ColumnsIdle /\ CandIdle /\ ReplyIdle
    /\ KeywordInit /\ RequestIdle
\* one call of _keyword_sql_fallback
KeywordSpec == KeywordSpecInit /\ [][KeywordNext]_vars

RequestSpecInit ==
    /\ GuardIdle /\ BatchIdle /\ QueryIdle /\ SharedIdle
    /\ FallbackIdle /\ ColumnsIdle /\ CandIdle /\ ReplyIdle /\ KeywordIdle
    /\ RequestInit
\* one request, from process_query to the text it returns
RequestSpec == RequestSpecInit /\ [][RequestNext]_vars

SharedSpecInit ==
    GuardIdle /\ BatchIdle /\ QueryIdle /\ PrepIdle /\ SharedInit
\* the request threads of the web application on the one bot instance
SharedSpec == SharedSpecInit /\ [][SharedNext]_vars

\* Scheduling of the guard: a thread that holds read_lock runs on to the
\* release (the critical sections are a load and a store), and a thread
\* that waits for the lock gets it when it is free again and again.  No
\* progress is assumed of the file steps of the sync service, of the writer
\* or of the bodies of the read sections.
Fairness ==
    /\ \A t \in Readers :
          /\ SF_vars(ReadTracker_enter_acquire(t))
          /\ SF_vars(ReadTracker_exit_acquire(t))
          /\ WF_vars(ReadTracker_enter_store(t))
          /\ WF_vars(ReadTracker_exit_store(t))
    /\ WF_vars(sync_poll)
    /\ WF_vars(sync_final_check)
\* the guard alone: reader threads and the sync service over a write DB that
\* no writer touches
LockInit ==
    /\ Init
    /\ write_db = File(<<"hdr">>)
    /\ read_db = File(<<"hdr">>)
LockNext == ReaderStep \/ SyncStep
FairSpec == LockInit /\ [][LockNext]_vars /\ Fairness

\* ------------------------------------------------------------------------
\* Properties of the replica guard
\* ------------------------------------------------------------------------
\* threads that have left __enter__ and not yet left __exit__
InSection == { t \in Readers : rpc[t] \in {"in", "exit_wait", "exit_locked"} }
\* READ_DB is being overwritten with WRITE_DB
CopyInProgress == spc = "copy_write"
\* sync_databases has returned (or raised) and the service is between passes
PassOver == spc = "idle" /\ sync_result \in {"true", "false", "raised"}

\* C1: the copy of the write DB over the read DB never takes place while
\* the active-read counter is greater than 0, nor while a reader is inside
\* a read section.
C1_NoCopyWhileReading ==
    CopyInProgress => (active_reads = 0 /\ InSection = {})

\* C2: a pass one of whose steps after the wait (backup, copy,
\* verification) failed returns False and leaves READ_DB as it was when the
\* pass began.
C2_FailedPassRestoresSnapshot ==
    (PassOver /\ failed_step \in {"backup", "copy", "verify"})
        => (sync_result = "false" /\ read_db = pre_read)

\* C3: a pass all of whose polls saw a nonzero counter stops polling after
\* the bounded wait, returns False without raising, runs no backup, copy,
\* verification or restore step and leaves READ_DB as it was.
C3_BusyReadersSkipPass ==
    (PassOver /\ failed_step = "none" /\ polls_nonzero)
        => /\ sync_result = "false"
           /\ wait_time = MaxWaitTicks
           /\ io_steps = {}
           /\ read_db = pre_read
C3_Witness ==
    /\ PassOver /\ failed_step = "none" /\ polls_nonzero
    /\ sync_result = "false" /\ wait_time = MaxWaitTicks
    /\ active_reads > 0 /\ read_db.exists /\ write_db # read_db

\* C4: after a pass that returned True the number of active rows of READ_DB
\* is the number of active rows WRITE_DB had when the copy began.
C4_SyncedCountMatchesCopyStart ==
    (PassOver /\ sync_result = "true") => ActiveCount(read_db) = copy_count

\* C5: the counter is never negative and equals the number of threads that
\* are inside a ReadTracker section, whether the section's body returns or
\* raises.
C5_CounterCountsReaders ==
    active_reads >= 0 /\ active_reads = Cardinality(InSection)
C5_Witness ==
    \E t, u \in Readers :
        /\ t # u
        /\ rpc[t] = "in"
        /\ rpc[u] = "exit_locked" /\ rexc[u]
        /\ active_reads = 2

\* C6: a ReadTracker enter or exit that has started completes, whatever
\* step the sync pass is at and even if the pass stays at that step.
C6_ReaderNeverBlocked ==
    \A t \in Readers :
        /\ (rpc[t] = "enter_wait") ~> (rpc[t] = "in")
        /\ (rpc[t] = "exit_wait") ~> (rpc[t] = "out")
C6_Witness ==
    \E t \in Readers :
        /\ rpc[t] = "enter_locked"
        /\ spc \in {"backup", "copy_open", "copy_write", "verify", "except"}

\* C7: sync_databases never lets an exception reach run_sync_service, which
\* therefore keeps scheduling passes.
C7_SyncNeverRaises == sync_result # "raised" /\ alive

\* ------------------------------------------------------------------------
\* Properties of batch_process_events
\* ------------------------------------------------------------------------
\* the text of a failed call carries a quota / rate-limit signature
HasRateLimitSignature(msg) == msg \cap {"quota", "rate", "429"} # {}

\* C8: when the completion call of at least one batch failed with a
\* quota/rate-limit signature, the call returns the RateLimited outcome,
\* the keyword fallback has not run and no completion call was repeated.
C8_RateLimitAbortsRequest ==
    (bpc = "done" /\ \E b \in 1..Len(batches) :
                        /\ batch_error[b].kind # "none"
                        /\ HasRateLimitSignature(batch_error[b].msg))
        => /\ result = "rate_limited"
           /\ ~fallback_ran
           /\ \A k \in BatchNums : calls[k] <= 1
C8_Witness ==
    /\ bpc = "done" /\ result = "rate_limited"
    /\ \E b, k \in 1..Len(batches) :
          /\ b # k
          /\ batch_error[b].kind = "rate_limit"
          /\ bstate[k] = "merged" /\ batch_matches[k] # <<>>

\* C9: no record id appears twice in the final list of accepted matches.
C9_NoDuplicateMatch == bpc = "done" => NoDuplicates(all_matches)
C9_Witness ==
    /\ bpc = "done" /\ result = "formatted"
    /\ \E b \in 1..Len(batches) : ~NoDuplicates(batch_matches[b])
    /\ fallback_added # {}
    /\ \E e \in seen_event_ids \ fallback_added : Hits(e) > 0

\* the matches as they would be merged with the batches taken in batch
\* order (the order a sequential run merges them in), then the fallback rows
RECURSIVE MergeInBatchOrder(_, _)
MergeInBatchOrder(acc, k) ==
    IF k > Len(batches) THEN acc
    ELSE MergeInBatchOrder(AddMatches(acc, batch_matches[k]), k + 1)
CanonicalMatches ==
    LET merged == MergeInBatchOrder([m |-> <<>>, s |-> {}], 1)
        min_expected == Max(MinExpectedFloor,
                            IF user_limit # 0 THEN user_limit
                            ELSE MinExpectedFloor)
        rows == KeywordFallbackRows(has_keywords,
                    Max(min_expected * 2, FallbackLimitFloor))
    IN IF fallback_ran THEN AddMatches(merged, rows).m ELSE merged.m

\* C11: with the same store, the same analysis and the same reply per batch,
\* the ranked order of the matches is the same for every order in which the
\* batches complete: it is the order obtained when the batches are merged in
\* batch order.
C11_RankingIndependentOfCompletionOrder ==
    (bpc = "done" /\ result = "formatted")
        => all_matches = SortDescBy(CanonicalMatches,
                             [e \in Ev |-> <<RelevanceOf(attr, e), Volume(e)>>])

\* a batch whose call failed with an error that carries no rate-limit
\* signature
FailedPlain(b) ==
    batch_error[b].kind # "none" /\ ~HasRateLimitSignature(batch_error[b].msg)
FailedRateLimited(b) ==
    batch_error[b].kind # "none" /\ HasRateLimitSignature(batch_error[b].msg)

\* C12: a batch that failed without a rate-limit signature is absorbed: the
\* request returns the matches accepted from the other batches, and it ends
\* in an error outcome only if every batch failed.
C12_ErrorOnlyIfEveryBatchFailed ==
    (/\ bpc = "done"
     /\ \E b \in 1..Len(batches) : FailedPlain(b)
     /\ ~(\E b \in 1..Len(batches) : FailedRateLimited(b)))
        => /\ result \in {"error", "exception"}
               => \A b \in 1..Len(batches) : batch_error[b].kind # "none"
           /\ (\E k \in 1..Len(batches) : batch_matches[k] # <<>>)
               => /\ result = "formatted"
                  /\ \A k \in 1..Len(batches) :
                        SeqToSet(batch_matches[k]) \subseteq SeqToSet(all_matches)

\* C10: every match of the final result that was accepted from a batch reply
\* (not added by the keyword fallback) has 70 <= relevance <= 100.
C10_BatchRelevanceInBand ==
    (bpc = "done" /\ result = "formatted")
        => \A i \in 1..Len(all_matches) :
              all_matches[i] \notin fallback_added
                  => /\ 70 <= RelevanceOf(attr, all_matches[i])
                     /\ RelevanceOf(attr, all_matches[i]) <= 100

\* ------------------------------------------------------------------------
\* Properties of process_query
\* ------------------------------------------------------------------------
\* process_query has chosen the executor of the request
Dispatched == qpc \notin {"start", "analyzed"}
\* execute_sql_query was called
SqlPathTaken ==
    /\ Dispatched
    /\ strategy = "sql"
    /\ (variant = "mcp" \/ _is_simple_metric_query(user_query))

\* C13 as stated: when _is_simple_metric_query detects the shape,
\* process_query executes the SCAN strategy whatever strategy the completion
\* returned.
C13_SimpleMetricForcesScan ==
    (variant = "root" /\ Dispatched /\ _is_simple_metric_query(user_query))
        => strategy = "sql"
\* C13 amended: the SCAN strategy is forced when the completion returned SCAN
\* or SEMANTIC; a COMPARE strategy is kept and the comparison is executed.
C13_SimpleMetricForcesScanUnlessCompare ==
    (variant = "root" /\ Dispatched /\ _is_simple_metric_query(user_query))
        => IF completion_strategy = "comparison"
           THEN strategy = "comparison" /\ ~SqlPathTaken
           ELSE SqlPathTaken
C13_Witness ==
    /\ variant = "root" /\ _is_simple_metric_query(user_query)
    /\ completion_strategy = "batch" /\ strategy = "sql" /\ qpc = "scan"

\* C14: when the analysis call failed or its reply had no parsable STRATEGY
\* line, the analysis has strategy batch, no filter expression, no
\* comparison expressions and no domain filter.
C14_DegradedAnalysisIsEmpty ==
    (qpc = "analyzed" /\ (call_failed \/ ~strategy_parsed))
        => /\ strategy = "batch"
           /\ sql_query = NoSql
           /\ comparison_queries = NoComparison
           /\ domain_filter = {}

\* C15: when the proposed expression does not begin with SELECT,
\* execute_sql_query hands no statement to the store, enters no read
\* section, leaves the store as it was and returns an error outcome.
C15_NonSelectNeverExecuted ==
    (SqlPathTaken /\ (proposed_sql = <<>> \/ Head(proposed_sql) # "SELECT"))
        => /\ executed = <<>>
           /\ read_sections = 0
           /\ store = pre_store
           /\ qpc \in {"sql", "done"}
           /\ qpc = "done" => outcome \in {"sql_rejected", "sql_error"}
C15_Witness ==
    /\ SqlPathTaken /\ proposed_sql = DropStatement
    /\ qpc = "done" /\ outcome = "sql_rejected"

\* C16: on the comparison path no expression that does not begin with
\* SELECT is handed to the store, and the store stays as it was.
C16_ComparisonRejectsNonSelect ==
    strategy = "comparison"
        => /\ \A i \in 1..Len(executed) : BeginsWithSelect(executed[i])
           /\ store = pre_store

\* C17: when execute_comparison_queries has returned, every pair it parsed
\* has had its scan turn, whatever the pairs before it did, and no category
\* hands more than 10 rows to the formatting call.
C17_EveryPairScanned ==
    (strategy = "comparison" /\ qpc = "done" /\ parsed_pairs # <<>>)
        => /\ read_sections = Len(parsed_pairs)
           /\ \A c \in comparison_data : Len(c.rows) <= ComparisonSample

\* C18: when the user query does not ask for inactive records and the
\* proposed expression has no activity predicate, no inactive record is in
\* the rows execute_sql_query fetched.
C18_ScanReturnsActiveOnly ==
    (/\ SqlPathTaken
     /\ ~InQuery(user_query, "inactive")
     /\ ~MentionsActivity(proposed_sql))
        => \A i \in 1..Len(results) : RowActive(results[i])

\* C19: when the proposed expression has no ordering, the statement
\* execute_sql_query executes orders by the metric field detected from the
\* user query.
C19_OrderByDetectedMetric ==
    (/\ SqlPathTaken /\ qpc = "scan"
     /\ ~HasToken(proposed_sql, "ORDER BY"))
        => /\ HasToken(sql_query, "ORDER BY")
           /\ sql_query[IndexOf(sql_query, "ORDER BY") + 1]
                 = _detect_metric_field(user_query)

\* C20 as stated: a SCAN result returned directly shows the first
\* displayLimit rows of the scan in scan order, displayLimit being the
\* user's limit when given and 20 otherwise, and reports the number of rows
\* of the scan as the total.
C20_ShownIsFirstDisplayLimitRows ==
    outcome = "sql_direct"
        => /\ display_results =
                 Take(results, IF q_user_limit # NoLimit THEN q_user_limit
                               ELSE DEFAULT_DISPLAY_LIMIT)
           /\ total_results = Len(results)
\* C20 amended: displayLimit is the user's limit when one is given and is
\* not 0, and 20 otherwise.
C20_ShownIsFirstRowsUpToPositiveLimit ==
    outcome = "sql_direct"
        => /\ display_results =
                 Take(results, IF q_user_limit # NoLimit /\ q_user_limit > 0
                               THEN q_user_limit ELSE DEFAULT_DISPLAY_LIMIT)
           /\ total_results = Len(results)
C20_Witness ==
    /\ outcome = "sql_direct" /\ pre_store = SmallStore
    /\ q_user_limit = 2
    /\ results = <<1, 2, 3>>
    /\ display_results = <<1, 2>> /\ total_results = 3

\* ------------------------------------------------------------------------
\* Properties of the ranking and formatting of batch_process_events
\* ------------------------------------------------------------------------
\* the matches at positions i < j of a list are in ranking order: relevance
\* descending, and volume descending between matches of equal relevance
\* whose volumes are numbers
RankedBefore(matches, i, j) ==
    LET x == matches[i]
        y == matches[j]
    IN \/ RelevanceOf(attr, x) > RelevanceOf(attr, y)
       \/ /\ RelevanceOf(attr, x) = RelevanceOf(attr, y)
          /\ (x \notin null_volume /\ y \notin null_volume)
                 => Volume(x) >= Volume(y)

\* C21: a formatted result of batch_process_events holds exactly the accepted
\* matches, each once, sorted by relevance descending with volume descending
\* as tie-break; the matches shown are the first displayLimit of them (the
\* user's limit, 20 when there is none) and the total reported is the number
\* of accepted matches.
C21_RankedTruncatedTrueTotal ==
    result = "formatted" =>
        /\ SeqToSet(all_matches) = seen_event_ids
        /\ Len(all_matches) = Cardinality(seen_event_ids)
        /\ \A i, j \in 1..Len(all_matches) :
              i < j => RankedBefore(all_matches, i, j)
        /\ LET limit == IF user_limit = 0 THEN DEFAULT_DISPLAY_LIMIT
                        ELSE user_limit
           IN /\ Len(display_events) = Min(limit, Len(all_matches))
              /\ \A i \in 1..Len(display_events) :
                    display_events[i] = all_matches[i]
        /\ total_count = Cardinality(seen_event_ids)
\* three matches accepted with a limit of 2: two are shown, the total is 3,
\* and the first two tie on relevance and are ordered by their volumes
C21_Witness ==
    /\ result = "formatted"
    /\ user_limit = 2
    /\ total_count = 3
    /\ Len(display_events) = 2
    /\ RelevanceOf(attr, all_matches[1]) = RelevanceOf(attr, all_matches[2])
    /\ Volume(all_matches[1]) > Volume(all_matches[2])

\* C22: when the accepted matches contain a record whose volume is NULL (and
\* the request was not ended by a rate limit), batch_process_events returns
\* a formatted result, not an error outcome.
C22_NullVolumeTolerated ==
    (/\ bpc = "done"
     /\ result # "rate_limited"
     /\ seen_event_ids \cap null_volume # {})
        => result = "formatted"

\* C23: after all batches complete, the keyword fallback scan runs exactly
\* when the number of accepted matches is below max(5, displayLimit), where
\* displayLimit is the user's limit when given and 20 otherwise.
C23_FallbackBelowDisplayLimit ==
    (fb_pc = "sorting" /\ variant = "root") =>
        (fb_ran <=> fb_matches < Max(5, DisplayLimit(fb_limit)))

\* C24: concurrent requests on the same bot instance do not interfere: the
\* domain filter and the external context handed to the scorer of a request,
\* and the structured records and context reported for it, are the ones
\* produced by that request alone.
C24_RequestsDoNotInterfere ==
    \A t \in Requests :
        cpc[t] = "done" =>
            /\ used_domain[t] = own_domain[t]
            /\ used_context[t] \in {Nobody, t}
            /\ reported_records[t] = t
            /\ reported_context[t] \in {Nobody, t}

\* C25: every analysis returned by analyze_query_all_in_one, on the parsed
\* path and on the failure path, has required_columns containing both 'id'
\* and 'title', whatever column list the completion returned.
C25_ColumnsHoldIdAndTitle ==
    col_pc = "analyzed" =>
        /\ "id" \in SeqToSet(required_columns)
        /\ "title" \in SeqToSet(required_columns)
\* the completion named only another column, and 'ID' in capitals: both
\* names were inserted in front
C25_Witness ==
    /\ col_pc = "analyzed"
    /\ ~col_failed
    /\ col_line = [present |-> TRUE, fields |-> <<"ID", "", "volume">>]
    /\ required_columns = <<"id", "title", "ID", "volume">>

\* ------------------------------------------------------------------------
\* Properties of the SCAN path of process_query
\* ------------------------------------------------------------------------
\* the request ended with the strategy SCAN
ScanRequestDone == qpc = "done" /\ strategy = "sql"
\* the scan ran and its rows were too sparse to be returned
Escalated ==
    /\ Len(executed) = 1
    /\ Len(results) < DirectResultFloor
\* what has been executed, if anything, is the proposed expression after
\* the removal of LIMIT and the injection of the activity test and of the
\* ordering
ExecutedIsProposed ==
    executed # <<>> =>
        executed = <<InjectOrder(InjectActive(RemoveLimit(proposed_sql),
                                              user_query))>>

\* C26: when the final strategy of a request is SCAN, the proposed filter
\* expression is what process_query executes, after safety rewriting, as a
\* store scan, and the batch scorer is reached only by the sparse-result
\* escalation.
C26_ScanRunsProposedExpression ==
    ScanRequestDone =>
        /\ ExecutedIsProposed
        /\ outcome = "batch_scorer" => Escalated
\* C26 as amended: the same, for the requests execute_sql_query is called
\* for (a simple metric query in the root bot, every SCAN request in the MCP
\* server's bot); the root bot hands every other SCAN request to the batch
\* scorer without executing the proposed expression.
C26_ScanRunsProposedExpressionWhenSimple ==
    ScanRequestDone =>
        IF variant = "mcp" \/ _is_simple_metric_query(user_query)
        THEN /\ ExecutedIsProposed
             /\ outcome = "batch_scorer" => Escalated
        ELSE /\ executed = <<>>
             /\ outcome = "batch_scorer"
\* in the root bot, a simple metric query whose proposed expression carried
\* a LIMIT was run without it and its rows were returned
C26_Witness ==
    /\ ScanRequestDone
    /\ variant = "root"
    /\ _is_simple_metric_query(user_query)
    /\ HasToken(proposed_sql, "LIMIT")
    /\ Len(executed) = 1
    /\ ~HasToken(executed[1], "LIMIT")
    /\ outcome = "sql_direct"

\* the raw query has one of the ranking words followed by a space
RankingQuery ==
    \E i \in 1..(Len(user_query) - 1) :
        user_query[i] \in {"top", "highest", "lowest", "most", "least",
                           "first", "last"}
\* the scan of execute_sql_query has returned its rows
ScanReturned ==
    /\ qpc = "done"
    /\ outcome \in {"sql_direct", "batch_scorer"}
    /\ Len(executed) = 1

\* C27: when a SCAN returns fewer than 10 rows and either returns none or
\* the query is not a simple ranking query, the rows are discarded and the
\* request goes to batch_process_events; in every other case the rows are
\* returned and the scorer is not called.
C27_SparseScanEscalates ==
    ScanReturned =>
        IF /\ Len(results) < 10
           /\ (Len(results) = 0 \/ ~RankingQuery)
        THEN outcome = "batch_scorer" /\ display_results = <<>>
        ELSE /\ outcome = "sql_direct"
             /\ total_results = Len(results)
             /\ Len(display_results) > 0
\* a scan returned three rows for a query that is not a ranking query, and
\* the request went to the scorer with nothing shown
C27_Witness ==
    /\ ScanReturned
    /\ Len(results) = 3
    /\ ~RankingQuery
    /\ outcome = "batch_scorer"
    /\ display_results = <<>>

\* C28: when executing the SCAN expression raises an error (a missing
\* expression included), batch_process_events is run for the request: the
\* request does not end with the error outcome of execute_sql_query.
C28_ScanErrorFallsBackToBatch ==
    qpc = "done" => outcome # "sql_error"

\* ------------------------------------------------------------------------
\* Properties of the preparation of the candidates
\* ------------------------------------------------------------------------
RECURSIVE Flatten(_)
Flatten(ss) == IF ss = <<>> THEN <<>> ELSE Head(ss) \o Flatten(Tail(ss))
\* the batches are consecutive slices of the candidates, in their order,
\* no slice empty and no candidate in two of them, and there are at most
\* max_batches of them
ConsecutiveBatches ==
    /\ Len(batches_to_process) <= MaxBatches
    /\ \A k \in 1..Len(batches_to_process) : batches_to_process[k] # <<>>
    /\ LET flat == Flatten(batches_to_process)
       IN /\ Len(flat) <= Len(cand_for_batches)
          /\ flat = SubSeq(cand_for_batches, 1, Len(flat))
          /\ NoDuplicates(flat)

\* C29: batch_process_events splits the retained candidates, in candidate
\* order, into consecutive batches of at most batchSize records and at most
\* maxBatches batches, every candidate in at most one batch.
C29_BatchesOfAtMostBatchSize ==
    cand_result = "scoring" =>
        /\ ConsecutiveBatches
        /\ \A k \in 1..Len(batches_to_process) :
              Len(batches_to_process[k]) <= BatchSize
\* C29 as amended: the same, with batches of at most batchSize records in
\* the root bot and of at most max(batchSize, ceil(n / maxBatches)) records
\* in the MCP server's bot, n being the number of candidates.
C29_BatchesOfAtMostOptimalSize ==
    cand_result = "scoring" =>
        /\ ConsecutiveBatches
        /\ \A k \in 1..Len(batches_to_process) :
              Len(batches_to_process[k]) <=
                  IF variant = "root" THEN BatchSize
                  ELSE Max(BatchSize,
                           (Len(cand_for_batches) + MaxBatches - 1)
                               \div MaxBatches)
\* the root bot with more candidates than the batches can hold: maxBatches
\* full batches, the candidates after them in no batch
C29_Witness ==
    /\ cand_result = "scoring"
    /\ variant = "root"
    /\ Len(cand_for_batches) > BatchSize * MaxBatches
    /\ Len(batches_to_process) = MaxBatches
    /\ \A k \in 1..MaxBatches : Len(batches_to_process[k]) = BatchSize

\* C30: in the root bot, the keyword prefilter keeps at most
\* batchSize * maxBatches candidates when at least one candidate scores, and
\* when no candidate matches a keyword or phrase of the query the full
\* active candidate set is the one scored by the batches.
C30_PrefilterBoundedAndFallsBackToAll ==
    (cand_pc = "done" /\ variant = "root" /\ num_active > 0) =>
        IF scoring # {}
        THEN Len(cand_for_batches) <= BatchSize * MaxBatches
        ELSE /\ cand_result = "scoring"
             /\ cand_for_batches = ActiveCandidates(num_active)

\* the positions of the triples of the reply that name event e
TriplesNaming(e) ==
    { i \in 1..Len(reply_text.triples) : reply_text.triples[i].id = e }
\* the score the triple at position i of the reply gives
ScoreOfTriple(i) ==
    IF reply_text.triples[i].parts = 1 THEN DefaultScore
    ELSE reply_text.triples[i].score
BatchMerged == reply_pc = "merged"

\* C31: a batch replying NONE contributes no match; a triple is accepted
\* only if its id belongs to the batch the reply answers; an accepted match
\* carries the score of a triple of the reply that names it; a reply of the
\* one triple "id:90:reason" for an event of the batch yields exactly that
\* event, with relevance 90.
C31_OnlyBatchIdsAcceptedWithTripleScore ==
    BatchMerged =>
        /\ reply_text.none
            => reply_matches = <<>> /\ merged_matches = prior_matches
        /\ \A e \in SeqToSet(reply_matches) :
              /\ e \in SeqToSet(reply_batch)
              /\ \E i \in TriplesNaming(e) :
                    RelevanceOf(reply_attr, e) = ScoreOfTriple(i)
        /\ SeqToSet(merged_matches) =
               SeqToSet(prior_matches) \cup SeqToSet(reply_matches)
        /\ \A e \in SeqToSet(reply_batch) :
              reply_text.triples =
                  <<[id |-> e, parts |-> 3, parsable |-> TRUE, score |-> 90]>>
              => /\ reply_matches = <<e>>
                 /\ RelevanceOf(reply_attr, e) = 90
C31_Witness ==
    /\ BatchMerged
    /\ Len(reply_text.triples) = 2
    /\ reply_text.triples[1].id \notin SeqToSet(reply_batch)
    /\ reply_text.triples[2].parts = 3
    /\ reply_matches = <<reply_text.triples[2].id>>
    /\ RelevanceOf(reply_attr, reply_matches[1]) = 90
    /\ prior_matches # <<>>

\* C32: a triple whose score field is not the text of an integer is still
\* accepted when its id is in the batch, with relevance 75 (when no other
\* triple of the reply names the same event).
C32_UnparsableScoreDefaulted ==
    BatchMerged =>
        \A i \in 1..Len(reply_text.triples) :
            LET tr == reply_text.triples[i]
            IN (/\ tr.parts = 3 /\ ~tr.parsable
                /\ tr.id \in SeqToSet(reply_batch))
                  => /\ tr.id \in SeqToSet(reply_matches)
                     /\ TriplesNaming(tr.id) = {i}
                            => RelevanceOf(reply_attr, tr.id) = DefaultScore

\* C37: when a reply names the same event in more than one triple, the
\* accepted match has the relevance of the first of those triples that was
\* accepted.
C37_FirstTripleWins ==
    BatchMerged =>
        \A e \in SeqToSet(reply_matches) :
            LET accepted == { i \in TriplesNaming(e) :
                                reply_text.triples[i].parts = 1
                                \/ reply_text.triples[i].parsable }
                first == CHOOSE i \in accepted : \A j \in accepted : i <= j
            IN RelevanceOf(reply_attr, e) = ScoreOfTriple(first)

\* the number of distinct query terms found in the title and description
\* of row r
DistinctTermsFound(r) == Cardinality(haystack[r] \cap SeqToSet(like_terms))

\* C33: every row _keyword_sql_fallback returns gets a relevance inside
\* 72..95, and of two rows the one with no fewer distinct query terms found
\* has no smaller relevance.
C33_FallbackBandMonotone ==
    kf_pc = "returned" =>
        \A r \in SeqToSet(kf_results) :
            /\ 72 <= kf_relevance[r] /\ kf_relevance[r] <= 95
            /\ \A q \in SeqToSet(kf_results) :
                  DistinctTermsFound(q) <= DistinctTermsFound(r)
                      => kf_relevance[q] <= kf_relevance[r]
C33_Witness ==
    /\ kf_pc = "returned"
    /\ kf_results = <<1, 2>>
    /\ DistinctTermsFound(1) = 2 /\ kf_relevance[1] = 80
    /\ DistinctTermsFound(2) = 6 /\ kf_relevance[2] = 92

\* C35: the keyword fallback never changes a match accepted from a batch
\* reply: over the fallback block, every event of seen_event_ids keeps its
\* relevance and its reasoning.
C35_FallbackKeepsBatchMatches ==
    [][bpc = "fallback" => \A e \in seen_event_ids : attr'[e] = attr[e]]_vars

\* C34: every scan of the read snapshot a request makes runs between a
\* ReadTracker enter and its exit, and a request with a completion call in
\* flight is inside no read section: it adds 0 to the active-read counter.
C34_ScansInsideCallsOutside ==
    /\ in_read \in {0, 1}
    /\ scanning => in_read = 1
    /\ open_calls > 0 => in_read = 0 /\ ~scanning
\* the batch calls of an escalated SQL query are in flight: the request has
\* entered and left two read sections before them
C34_Witness ==
    /\ open_calls = 2
    /\ rq.via = "execute_sql_query"
    /\ rq.pc = "batches"

\* C36: when process_query returns a rate-limit text, an error text or a
\* no-results text, the structured record list of the request is empty; the
\* list is non-empty only when the text lists those same records.
C36_StructuredOnlyWithListing ==
    rq.pc = "done" =>
        /\ rq_text.kind \in {"rate_limited", "error", "no_results"}
               => rq_structured = <<>>
        /\ rq_structured # <<>>
               => rq_text.kind = "listing" /\ rq_text.listed = rq_structured
====
